---- MODULE Spec2Model ----
(***************************************************************************)
(* A model of scripts/build_mega_afl_dataset.py: the name canonicaliser,   *)
(* the fuzzy entity resolver, the fold of the four row sources into the    *)
(* record registry, the output-row builder (conflict flags, confidence,    *)
(* category), the manual-override pass, and the replacement / draft-score  *)
(* engine.                                                                 *)
(*                                                                         *)
(* Conventions of the model                                                *)
(*   - a Python str is a sequence of one-character strings;                *)
(*   - an optional value is a sequence of length <= 1: None is << >> and   *)
(*     the value v is <<v>>;                                               *)
(*   - a score (projected, average, relative value, ADP, spread, vorp) is  *)
(*     an integer number of tenths; a confidence score an integer number   *)
(*     of hundredths; an expert percentile an integer number of            *)
(*     thousandths; a draft score an integer number of hundredths;         *)
(*   - a dict is a sequence in insertion order.                            *)
(***************************************************************************)
EXTENDS Integers, Sequences, FiniteSets, TLC

None == << >>

Some(v) == <<v>>

IsNone(x) == x = << >>

Val(x) == x[1]

Range(s) == {s[i] : i \in 1..Len(s)}

\* Python's x or y, on optional values.
OrElse(x, y) == IF IsNone(x) THEN y ELSE x

---------------------------------------------------------------------------
(* Characters and strings.                                                 *)

UpperLetters ==
    {"A","B","C","D","E","F","G","H","I","J","K","L","M",
     "N","O","P","Q","R","S","T","U","V","W","X","Y","Z"}

LowerLetters ==
    {"a","b","c","d","e","f","g","h","i","j","k","l","m",
     "n","o","p","q","r","s","t","u","v","w","x","y","z"}

Digits == {"0","1","2","3","4","5","6","7","8","9"}

LowerMap ==
    [c \in UpperLetters |->
       CASE c = "A" -> "a" [] c = "B" -> "b" [] c = "C" -> "c" [] c = "D" -> "d"
         [] c = "E" -> "e" [] c = "F" -> "f" [] c = "G" -> "g" [] c = "H" -> "h"
         [] c = "I" -> "i" [] c = "J" -> "j" [] c = "K" -> "k" [] c = "L" -> "l"
         [] c = "M" -> "m" [] c = "N" -> "n" [] c = "O" -> "o" [] c = "P" -> "p"
         [] c = "Q" -> "q" [] c = "R" -> "r" [] c = "S" -> "s" [] c = "T" -> "t"
         [] c = "U" -> "u" [] c = "V" -> "v" [] c = "W" -> "w" [] c = "X" -> "x"
         [] c = "Y" -> "y" [] c = "Z" -> "z"]

\* str.lower() and str.upper(), character by character.
LowerChar(c) == IF c \in UpperLetters THEN LowerMap[c] ELSE c

UpperChar(c) ==
    IF c \in LowerLetters THEN CHOOSE u \in UpperLetters : LowerMap[u] = c ELSE c

Lower(s) == [i \in 1..Len(s) |-> LowerChar(s[i])]

Upper(s) == [i \in 1..Len(s) |-> UpperChar(s[i])]

RECURSIVE LStrip(_)
LStrip(s) == IF s # << >> /\ Head(s) = " " THEN LStrip(Tail(s)) ELSE s

RECURSIVE RStrip(_)
RStrip(s) ==
    IF s # << >> /\ s[Len(s)] = " " THEN RStrip(SubSeq(s, 1, Len(s) - 1)) ELSE s

\* str.strip()
Strip(s) == RStrip(LStrip(s))

\* (value or "").strip().upper(), the club normalisation used at every fold
\* and in the output-row builder.
StripUpper(s) == Upper(Strip(s))

---------------------------------------------------------------------------
(* Name canonicaliser.                                                     *)

\* The typographic variants nkey maps to ASCII before stripping; the curly
\* quotes, the backtick and the dashes are written by code point.
QuoteMap(c) ==
    CASE c = "U+2019" -> "'"
      [] c = "U+0060" -> "'"
      [] c = "U+2018" -> "'"
      [] c = "U+2013" -> "-"
      [] c = "U+2014" -> "-"
      [] OTHER -> c

nkey(value) ==
    IF value = << >> THEN << >>
    ELSE LET text == [i \in 1..Len(value) |-> QuoteMap(LowerChar(value[i]))]
         IN  SelectSeq(text, LAMBDA c : c \in LowerLetters \cup Digits)

MANUAL_ALIASES ==
       (<<"n","o","a","h","r","o","b","e","r","t","s","t","h","o","m","s","o","n">> :> <<"n","o","a","h","r","o","b","e","r","t","s","t","h","o","m","p","s","o","n">>)
    @@ (<<"b","a","i","l","e","y","f","r","i","t","s","c","h">> :> <<"b","a","y","l","e","y","f","r","i","t","s","c","h">>)
    @@ (<<"c","a","m","m","c","k","e","n","z","i","e">> :> <<"c","a","m","m","a","c","k","e","n","z","i","e">>)
    @@ (<<"c","o","n","n","o","r","m","c","d","o","n","a","l","d">> :> <<"c","o","n","n","o","r","m","a","c","d","o","n","a","l","d">>)
    @@ (<<"c","o","n","o","r","i","d","u","n">> :> <<"c","o","n","n","o","r","i","d","u","n">>)
    @@ (<<"d","e","v","o","n","r","o","b","e","r","t","s","o","n">> :> <<"d","e","v","e","n","r","o","b","e","r","t","s","o","n">>)
    @@ (<<"e","l","i","j","a","h","h","e","w","i","t","t">> :> <<"e","l","i","j","a","h","h","e","w","e","t","t">>)
    @@ (<<"j","a","s","p","e","r","f","l","e","t","c","h","e","r">> :> <<"j","a","s","p","a","f","l","e","t","c","h","e","r">>)
    @@ (<<"j","o","s","h","u","a","w","o","r","r","e","l","l">> :> <<"j","o","s","h","w","o","r","r","e","l","l">>)
    @@ (<<"k","a","i","l","o","h","m","a","n">> :> <<"k","a","i","l","o","h","m","a","n","n">>)
    @@ (<<"k","i","d","e","a","n","c","o","l","e","m","a","n">> :> <<"k","e","i","d","e","a","n","c","o","l","e","m","a","n">>)
    @@ (<<"l","a","c","h","i","e","s","c","h","u","l","z">> :> <<"l","a","c","h","i","e","s","c","h","u","l","t","z">>)
    @@ (<<"m","a","t","t","k","e","n","n","e","d","y">> :> <<"m","a","t","t","h","e","w","k","e","n","n","e","d","y">>)
    @@ (<<"o","l","i","f","l","o","r","e","n","t">> :> <<"o","l","i","v","e","r","f","l","o","r","e","n","t">>)
    @@ (<<"o","l","l","i","e","d","e","m","p","s","e","y">> :> <<"o","l","i","v","e","r","d","e","m","p","s","e","y">>)
    @@ (<<"p","a","t","l","i","p","i","n","s","k","i">> :> <<"p","a","t","r","i","c","k","l","i","p","i","n","s","k","i">>)
    @@ (<<"r","i","l","e","y","s","a","n","d","e","r","s">> :> <<"r","y","l","e","y","s","a","n","d","e","r","s">>)
    @@ (<<"r","i","l","e","y","w","e","s","t">> :> <<"r","h","y","l","e","e","w","e","s","t">>)
    @@ (<<"t","o","b","y","t","r","a","v","a","g","l","i","a">> :> <<"t","o","b","i","e","t","r","a","v","a","g","l","i","a">>)
    @@ (<<"z","a","c","g","u","t","h","r","i","e">> :> <<"z","a","c","h","g","u","t","h","r","i","e">>)
    @@ (<<"z","a","c","r","e","i","d">> :> <<"z","a","c","h","r","e","i","d">>)

\* the alias table read in both directions: a corrected spelling goes back
\* to its variant
canonical_key_both_ways(name) ==
    LET key == nkey(name)
    IN  IF key \in DOMAIN MANUAL_ALIASES THEN MANUAL_ALIASES[key]
        ELSE IF \E k \in DOMAIN MANUAL_ALIASES : MANUAL_ALIASES[k] = key
             THEN CHOOSE k \in DOMAIN MANUAL_ALIASES : MANUAL_ALIASES[k] = key
             ELSE key

\* the alias table looked up with the raw name, before normalization
canonical_key_alias_first(name) ==
    nkey(IF name \in DOMAIN MANUAL_ALIASES THEN MANUAL_ALIASES[name] ELSE name)

canonical_key(name) ==
    LET key == nkey(name)
    IN  IF key \in DOMAIN MANUAL_ALIASES THEN MANUAL_ALIASES[key] ELSE key

\* The maximal runs of letters of s from position i on, cur being the run
\* that is open: re.findall(r"[A-Za-z]+", s).
RECURSIVE AlphaRuns(_, _, _)
AlphaRuns(s, i, cur) ==
    LET closed == IF cur = << >> THEN << >> ELSE <<cur>>
    IN  IF i > Len(s) THEN closed
        ELSE IF s[i] \in LowerLetters \cup UpperLetters
             THEN AlphaRuns(s, i + 1, Append(cur, s[i]))
             ELSE closed \o AlphaRuns(s, i + 1, << >>)

\* <<first, last>>
first_last(name) ==
    IF name = << >> THEN << << >>, << >> >>
    ELSE LET parts == AlphaRuns(Lower(name), 1, << >>)
         IN  IF parts = << >> THEN << << >>, << >> >>
             ELSE <<parts[1], parts[Len(parts)]>>

---------------------------------------------------------------------------
(* difflib.SequenceMatcher(None, a, b).ratio() for strings shorter than    *)
(* 200 characters (no junk, no popular-element pruning): the matching      *)
(* blocks are the longest common block (earliest in a, then earliest in    *)
(* b) and, recursively, the blocks to its left and to its right.  A ratio  *)
(* is the exact fraction <<numerator, denominator>>.                       *)

RECURSIVE CommonRun(_, _, _, _, _, _)
CommonRun(a, i, ahi, b, j, bhi) ==
    IF i > ahi \/ j > bhi THEN 0
    ELSE IF a[i] # b[j] THEN 0
    ELSE 1 + CommonRun(a, i + 1, ahi, b, j + 1, bhi)

\* <<i, j, k>>: a[i..i+k-1] = b[j..j+k-1] within a[alo..ahi], b[blo..bhi]
find_longest_match(a, alo, ahi, b, blo, bhi) ==
    LET cands == {p \in (alo..ahi) \X (blo..bhi) : a[p[1]] = b[p[2]]}
        size(p) == CommonRun(a, p[1], ahi, b, p[2], bhi)
    IN  IF cands = {} THEN <<alo, blo, 0>>
        ELSE LET p == CHOOSE p \in cands :
                         \A q \in cands :
                            \/ size(p) > size(q)
                            \/ /\ size(p) = size(q)
                               /\ \/ p[1] < q[1]
                                  \/ p[1] = q[1] /\ p[2] <= q[2]
             IN  <<p[1], p[2], size(p)>>

RECURSIVE matching_total(_, _, _, _, _, _)
matching_total(a, alo, ahi, b, blo, bhi) ==
    IF alo > ahi \/ blo > bhi THEN 0
    ELSE LET m == find_longest_match(a, alo, ahi, b, blo, bhi)
         IN  IF m[3] = 0 THEN 0
             ELSE m[3]
                  + matching_total(a, alo, m[1] - 1, b, blo, m[2] - 1)
                  + matching_total(a, m[1] + m[3], ahi, b, m[2] + m[3], bhi)

ratio(a, b) ==
    IF Len(a) + Len(b) = 0 THEN <<1, 1>>
    ELSE <<2 * matching_total(a, 1, Len(a), b, 1, Len(b)), Len(a) + Len(b)>>

---------------------------------------------------------------------------
(* Positions.                                                              *)

TDEF == <<"D","E","F">>

TMID == <<"M","I","D">>

TRUC == <<"R","U","C">>

TFWD == <<"F","W","D">>

POS_ORDER == <<TDEF, TMID, TRUC, TFWD>>

\* str.replace(old, new): leftmost, non-overlapping occurrences
RECURSIVE ReplaceAll(_, _, _)
ReplaceAll(s, old, new) ==
    IF Len(s) < Len(old) THEN s
    ELSE IF SubSeq(s, 1, Len(old)) = old
         THEN new \o ReplaceAll(SubSeq(s, Len(old) + 1, Len(s)), old, new)
         ELSE <<Head(s)>> \o ReplaceAll(Tail(s), old, new)

\* old in s
Contains(s, old) ==
    \E i \in 1..(Len(s) - Len(old) + 1) : SubSeq(s, i, i + Len(old) - 1) = old

\* "/".join(parts)
RECURSIVE JoinSlash(_)
JoinSlash(parts) ==
    IF parts = << >> THEN << >>
    ELSE IF Len(parts) = 1 THEN parts[1]
    ELSE parts[1] \o <<"/">> \o JoinSlash(Tail(parts))

\* s.split("/"): the pieces between slashes, empty pieces included
RECURSIVE SplitSlash(_, _, _)
SplitSlash(s, i, cur) ==
    IF i > Len(s) THEN <<cur>>
    ELSE IF s[i] = "/" THEN <<cur>> \o SplitSlash(s, i + 1, << >>)
    ELSE SplitSlash(s, i + 1, Append(cur, s[i]))

\* the tokens found in the mapped text, in the order of POS_ORDER
deduped_tokens(mapped) ==
    LET found == {p \in Range(POS_ORDER) : Contains(mapped, p)}
        tokens == IF found = {} /\ mapped \in Range(POS_ORDER)
                  THEN {mapped} ELSE found
    IN  SelectSeq(POS_ORDER, LAMBDA p : p \in tokens)

normalize_position(raw) ==
    IF raw = << >> THEN << >>
    ELSE LET text == SelectSeq(Upper(raw), LAMBDA c : c # " ")
             m1 == ReplaceAll(text, TMID \o TFWD, TMID \o <<"/">> \o TFWD)
             m2 == ReplaceAll(m1, TFWD \o TMID, TFWD \o <<"/">> \o TMID)
             m3 == ReplaceAll(m2, TDEF \o TMID, TDEF \o <<"/">> \o TMID)
             m4 == ReplaceAll(m3, TMID \o TDEF, TMID \o <<"/">> \o TDEF)
             m5 == ReplaceAll(m4, TRUC \o <<"K">>, TRUC)
             m6 == ReplaceAll(m5, TRUC \o <<"K","/">> \o TFWD, TRUC \o <<"/">> \o TFWD)
             m7 == ReplaceAll(m6, TRUC \o <<"K">> \o TMID, TRUC \o <<"/">> \o TMID)
             mapped == ReplaceAll(m7, TRUC \o TMID, TRUC \o <<"/">> \o TMID)
         IN  JoinSlash(deduped_tokens(mapped))

position_set(pos) ==
    {Strip(p) : p \in {q \in Range(SplitSlash(pos, 1, << >>)) : Strip(q) # << >>}}

\* pos.split("/")[0] if pos else ""
primary_of(pos) == IF pos = << >> THEN << >> ELSE SplitSlash(pos, 1, << >>)[1]

---------------------------------------------------------------------------
(* Entity resolver.                                                        *)

THRESHOLD_RANKINGS == 90

THRESHOLD_DATA == 88

THRESHOLD_EXPERTS == 84

WEIGHT_KEY == 65

WEIGHT_LAST == 25

WEIGHT_FIRST == 10

CLUB_BONUS == 5

CLUB_PENALTY == 8

KeyIndex(records, key) ==
    IF \E i \in 1..Len(records) : records[i].key = key
    THEN CHOOSE i \in 1..Len(records) : records[i].key = key
    ELSE 0

HasKey(records, key) == KeyIndex(records, key) # 0

---------------------------------------------------------------------------
(* The doubles of the score arithmetic.  A double is zero, or            *)
(* (-1)^neg * M * 2^exp with 2^52 <= M < 2^53, M kept as its 53 binary    *)
(* digits, the most significant first.  Division, multiplication and     *)
(* addition give the double nearest to the exact result, ties to the     *)
(* even one, as IEEE 754 arithmetic does.  The exact results are         *)
(* computed on numerals of base 2^13, least significant digit first.     *)

MANT_DIG == 53

LIMB_BITS == 13

LIMB_BASE == 8192

dbl_zero == [neg |-> FALSE, bits |-> << >>, exp |-> 0]

Zeros(n) == [i \in 1..n |-> 0]

\* the sum of f[i] over i in lo..hi
RECURSIVE SumOver(_, _, _)
SumOver(f, lo, hi) == IF lo > hi THEN 0 ELSE f[hi] + SumOver(f, lo, hi - 1)

\* digit k (from 0, the least significant) of binary digits written most
\* significant first
bit_of(bits, k) == IF k < Len(bits) THEN bits[Len(bits) - k] ELSE 0

\* the numeral of base 2^13 of binary digits, and back (without leading
\* zeros)
to_limbs(bits) ==
    [j \in 1..((Len(bits) + LIMB_BITS - 1) \div LIMB_BITS) |-> SumOver([i \in 0..(LIMB_BITS - 1) |-> bit_of(bits, LIMB_BITS * (j - 1) + i) * 2^i], 0, LIMB_BITS - 1)]

limb_bit(limbs, k) == (limbs[(k \div LIMB_BITS) + 1] \div 2^(k % LIMB_BITS)) % 2

top_bit(limbs) ==
    IF \A k \in 0..(LIMB_BITS * Len(limbs) - 1) : limb_bit(limbs, k) = 0 THEN 0 - 1
    ELSE CHOOSE k \in 0..(LIMB_BITS * Len(limbs) - 1) : limb_bit(limbs, k) = 1 /\ \A h \in (k + 1)..(LIMB_BITS * Len(limbs) - 1) : limb_bit(limbs, h) = 0

bits_from(limbs, top) == [i \in 1..(top + 1) |-> limb_bit(limbs, top + 1 - i)]

from_limbs(limbs) == bits_from(limbs, top_bit(limbs))

limb_at(a, k) == IF k <= Len(a) THEN a[k] ELSE 0

\* the digits of a sum of columns
RECURSIVE propagated(_, _, _)
propagated(cols, k, carry) ==
    IF k > Len(cols) THEN (IF carry = 0 THEN << >> ELSE <<carry % LIMB_BASE, carry \div LIMB_BASE>>)
    ELSE <<(cols[k] + carry) % LIMB_BASE>> \o propagated(cols, k + 1, (cols[k] + carry) \div LIMB_BASE)

product_columns(a, b) ==
    [k \in 1..(Len(a) + Len(b) - 1) |-> SumOver([i \in 1..Len(a) |-> IF k + 1 - i \in 1..Len(b) THEN a[i] * b[k + 1 - i] ELSE 0], 1, Len(a))]

product_bits(x, y) == from_limbs(propagated(product_columns(to_limbs(x), to_limbs(y)), 1, 0))

limbs_sum(a, b) == propagated([k \in 1..Len(a) |-> a[k] + limb_at(b, k)], 1, 0)

\* x + y for binary digits x at least as long as y
sum_bits(x, y) == from_limbs(limbs_sum(to_limbs(x), to_limbs(y)))

\* a - b for a >= b
RECURSIVE borrowed(_, _, _, _)
borrowed(a, b, k, borrow) ==
    IF k > Len(a) THEN << >>
    ELSE <<(a[k] - limb_at(b, k) - borrow + LIMB_BASE) % LIMB_BASE>> \o borrowed(a, b, k + 1, IF a[k] - limb_at(b, k) - borrow < 0 THEN 1 ELSE 0)

difference_bits(x, y) == from_limbs(borrowed(to_limbs(x), to_limbs(y), 1, 0))

\* x < y for binary digits without leading zeros
bits_less(x, y) ==
    \/ Len(x) < Len(y)
    \/ /\ Len(x) = Len(y)
       /\ \E p \in 1..Len(x) : x[p] < y[p] /\ \A i \in 1..(p - 1) : x[i] = y[i]

\* keep + 1, for digits that are not all 1
incremented(keep, last_zero) ==
    [i \in 1..Len(keep) |-> IF i < last_zero THEN keep[i] ELSE IF i = last_zero THEN 1 ELSE 0]

round_up(neg, keep, exp) ==
    IF \A i \in 1..Len(keep) : keep[i] = 1
    THEN [neg |-> neg, bits |-> <<1>> \o Zeros(Len(keep) - 1), exp |-> exp + 1]
    ELSE [neg |-> neg, bits |-> incremented(keep, CHOOSE p \in 1..Len(keep) : keep[p] = 0 /\ \A i \in (p + 1)..Len(keep) : keep[i] = 1), exp |-> exp]

\* the double nearest to bits * 2^exp (plus a rest below the last digit
\* when sticky); bits has no leading zero
round_bits(neg, bits, exp, sticky) ==
    IF bits = << >> THEN dbl_zero
    ELSE IF Len(bits) <= MANT_DIG
    THEN [neg |-> neg, bits |-> bits \o Zeros(MANT_DIG - Len(bits)), exp |-> exp - (MANT_DIG - Len(bits))]
    ELSE IF /\ bits[MANT_DIG + 1] = 1
            /\ \/ sticky
               \/ bits[MANT_DIG] = 1
               \/ \E i \in (MANT_DIG + 2)..Len(bits) : bits[i] = 1
    THEN round_up(neg, SubSeq(bits, 1, MANT_DIG), exp + Len(bits) - MANT_DIG)
    ELSE [neg |-> neg, bits |-> SubSeq(bits, 1, MANT_DIG), exp |-> exp + Len(bits) - MANT_DIG]

\* the next digits of base 2^13 of r / t behind the point, most
\* significant first, and the remainder that is left
RECURSIVE quotient_limbs(_, _, _)
quotient_limbs(r, t, count) ==
    IF count = 0 THEN [limbs |-> << >>, rest |-> r]
    ELSE [limbs |-> Append(quotient_limbs((r * LIMB_BASE) % t, t, count - 1).limbs, (r * LIMB_BASE) \div t), rest |-> quotient_limbs((r * LIMB_BASE) % t, t, count - 1).rest]

\* n / t for natural numbers n < 2^13 and 0 < t < 2^18, from 6 digits
\* of base 2^13 behind the point: at least 60 binary digits from the first
\* that is not 0 when n / t >= 2^-18.  Also the double of a literal that
\* spells n / t in decimal digits.
QUOTIENT_LIMBS == 6

rounded_quotient(whole, q) ==
    round_bits(FALSE, from_limbs(q.limbs \o <<whole>>), 0 - LIMB_BITS * QUOTIENT_LIMBS, q.rest # 0)

dbl_div(n, t) == rounded_quotient(n \div t, quotient_limbs(n % t, t, QUOTIENT_LIMBS))

dbl_mul(x, y) ==
    IF x.bits = << >> \/ y.bits = << >> THEN dbl_zero
    ELSE round_bits(x.neg # y.neg, product_bits(x.bits, y.bits), x.exp + y.exp, FALSE)

\* x + y of the integers bx * 2^exp and by * 2^exp with signs
add_aligned(xneg, bx, yneg, by, exp) ==
    IF xneg = yneg THEN round_bits(xneg, IF Len(bx) >= Len(by) THEN sum_bits(bx, by) ELSE sum_bits(by, bx), exp, FALSE)
    ELSE IF bx = by THEN dbl_zero
    ELSE IF bits_less(bx, by) THEN round_bits(yneg, difference_bits(by, bx), exp, FALSE)
    ELSE round_bits(xneg, difference_bits(bx, by), exp, FALSE)

dbl_add(x, y) ==
    IF x.bits = << >> THEN y
    ELSE IF y.bits = << >> THEN x
    ELSE IF x.exp >= y.exp THEN add_aligned(x.neg, x.bits \o Zeros(x.exp - y.exp), y.neg, y.bits, y.exp)
    ELSE add_aligned(x.neg, x.bits, y.neg, y.bits \o Zeros(y.exp - x.exp), x.exp)

dbl_neg(x) == IF x.bits = << >> THEN x ELSE [x EXCEPT !.neg = ~x.neg]

dbl_sub(x, y) == dbl_add(x, dbl_neg(y))

\* x > y
dbl_greater(x, y) == dbl_sub(x, y).bits # << >> /\ ~dbl_sub(x, y).neg

\* 0.65 * key_ratio + 0.25 * last_ratio + 0.10 * first_ratio of three
\* fractions: the fraction <<n, d>> stands for the score n / (100 * d).
weighted_score(kr, lr, fr) ==
    << WEIGHT_KEY * kr[1] * lr[2] * fr[2]
       + WEIGHT_LAST * lr[1] * kr[2] * fr[2]
       + WEIGHT_FIRST * fr[1] * kr[2] * lr[2],
       kr[2] * lr[2] * fr[2] >>

\* SequenceMatcher(None, part, other).ratio() if part else 0.0
part_ratio(part, other) == IF part # << >> THEN ratio(part, other) ELSE <<0, 1>>

\* The weighted name similarity of a name to a record, without the club
\* adjustment.
name_similarity(name, record) ==
    weighted_score(ratio(canonical_key(name), record.key),
                   part_ratio(first_last(name)[2], first_last(record.name)[2]),
                   part_ratio(first_last(name)[1], first_last(record.name)[1]))

\* +0.05, -0.08 or 0, in hundredths
club_adjustment(club, record) ==
    LET record_club == StripUpper(record.club)
    IN  IF club # << >> /\ record_club # << >>
        THEN IF StripUpper(club) = record_club THEN CLUB_BONUS ELSE 0 - CLUB_PENALTY
        ELSE 0

\* score += adjustment, on a fraction
adjusted(s, adjustment) == <<s[1] + adjustment * s[2], s[2]>>

candidate_score(name, club, record) ==
    adjusted(name_similarity(name, record), club_adjustment(club, record))

\* what the score of a candidate is computed from: key_ratio, last_ratio
\* and first_ratio as fractions, and the club adjustment in hundredths
score_parts(name, club, record) ==
    <<ratio(canonical_key(name), record.key), part_ratio(first_last(name)[2], first_last(record.name)[2]), part_ratio(first_last(name)[1], first_last(record.name)[1]), club_adjustment(club, record)>>

\* the exact value of the score, as a fraction
exact_score(parts) == adjusted(weighted_score(parts[1], parts[2], parts[3]), parts[4])

\* 2.0 * matches / length, and 0.0 and 1.0
double_ratio(r) == dbl_div(r[1], r[2])

\* line 409 in doubles: (0.65 * key_ratio + 0.25 * last_ratio) + 0.10 * first_ratio
double_weighted(kr, lr, fr) ==
    dbl_add(dbl_add(dbl_mul(dbl_div(WEIGHT_KEY, 100), double_ratio(kr)), dbl_mul(dbl_div(WEIGHT_LAST, 100), double_ratio(lr))), dbl_mul(dbl_div(WEIGHT_FIRST, 100), double_ratio(fr)))

\* lines 414-417 in doubles: score += 0.05, score -= 0.08
double_adjusted(s, adjustment) ==
    IF adjustment > 0 THEN dbl_add(s, dbl_div(CLUB_BONUS, 100))
    ELSE IF adjustment < 0 THEN dbl_sub(s, dbl_div(CLUB_PENALTY, 100))
    ELSE s

\* the score the code computes, a double
double_score(parts) == double_adjusted(double_weighted(parts[1], parts[2], parts[3]), parts[4])

\* score > best_score on the doubles.  The double of a score is less
\* than 2^-49 from its exact value, and exact values that differ do so
\* by more than 2^-31 (their denominators, and the products of two of
\* them, are below 2^31): the doubles of different exact values are in
\* the order of these, and the doubles decide between equal exact values
\* (equal parts give the same double).
exceeds(s, parts, best) ==
    IF s[1] * best.score[2] # best.score[1] * s[2] THEN s[1] * best.score[2] > best.score[1] * s[2]
    ELSE parts # best.parts /\ dbl_greater(double_score(parts), double_score(best.parts))

\* if score > best_score: best_key, best_score = key, score
keep_best(best, key, parts) ==
    IF exceeds(exact_score(parts), parts, best)
    THEN [key |-> Some(key), score |-> exact_score(parts), parts |-> parts]
    ELSE best

\* The loop over records.items(): best is [key, score, parts] of the first
\* candidate whose double is the maximum.
RECURSIVE best_candidate(_, _, _, _, _)
best_candidate(name, club, records, i, best) ==
    IF i > Len(records) THEN best
    ELSE IF first_last(records[i].name)[2] = << >>
         THEN best_candidate(name, club, records, i + 1, best)
         ELSE best_candidate(name, club, records, i + 1,
                             keep_best(best, records[i].key,
                                       score_parts(name, club, records[i])))

\* accept without the comparison with the threshold
accept_any(best, threshold) == best.key

\* best_score >= threshold on the doubles, the threshold in hundredths
reaches(best, threshold) ==
    IF best.score[1] # threshold * best.score[2] THEN best.score[1] > threshold * best.score[2]
    ELSE ~dbl_greater(dbl_div(threshold, 100), double_score(best.parts))

\* return best_key if best_key and best_score >= threshold else None
accept(best, threshold) ==
    IF /\ ~IsNone(best.key)
       /\ Val(best.key) # << >>
       /\ reaches(best, threshold)
    THEN best.key
    ELSE None

\* None, or Some(key)
match_existing_key(name, club, records, threshold) ==
    IF records = << >> THEN None
    ELSE IF HasKey(records, canonical_key(name)) THEN Some(canonical_key(name))
    ELSE IF first_last(name)[1] = << >> /\ first_last(name)[2] = << >> THEN None
    ELSE accept(best_candidate(name, club, records, 1,
                               [key |-> None, score |-> <<-100, 1>>, parts |-> << >>]),
                threshold)

---------------------------------------------------------------------------
(* Rows of the four sources and records of the registry.  A numeric cell   *)
(* of a row holds what safe_float / safe_int / parse_bye /                 *)
(* parse_age_from_dob make of its text: None, or the number.  Two cells    *)
(* hold their text as it was loaded (None when the cell is absent), and   *)
(* the loop of step 5 parses them: VORP of a rankings row, by safe_float, *)
(* and Price of an ultimate row, by safe_int.  A number is kept in        *)
(* tenths; the Projected cell of a rankings or data row may also hold a   *)
(* number of two decimals, in hundredths (see Fine).                      *)

\* first_non_null(a, b) or "", on strings: "" counts as null
first_non_empty(a, b) == IF a # << >> THEN a ELSE b

NoUltimateRow ==
    [Player |-> << >>, Club |-> << >>, Position |-> << >>, AVG |-> None,
     GMS |-> None, Age |-> None, BYES_Mid |-> None, BYES_Early |-> None,
     Price |-> None]

NoRankingsRow ==
    [Name |-> << >>, Team |-> << >>, Position |-> << >>, Rank |-> None,
     ADP |-> None, Projected |-> None, Bye |-> None, Injury |-> << >>,
     Avg2025 |-> None, VORP |-> None]

NoDataRow ==
    [Player |-> << >>, Club |-> << >>, Position |-> << >>,
     RelativeValue |-> None, Projected |-> None, Gm25 |-> None,
     Notes |-> << >>, ADP |-> None, ID |-> << >>]

new_record(key, fallback_name) ==
    [key |-> key, name |-> Strip(fallback_name), club |-> << >>, pos |-> << >>,
     sources |-> {}, ultimate |-> None, rankings |-> None, data |-> None,
     expert_ranks |-> << >>]

ensure_record(records, key, fallback_name) ==
    IF HasKey(records, key) THEN records
    ELSE Append(records, new_record(key, fallback_name))

\* key = matched_key or raw_key; fuzzy: matched_key and matched_key != raw_key
resolved(raw_key, matched_key) ==
    LET truthy == ~IsNone(matched_key) /\ Val(matched_key) # << >>
    IN  [key |-> IF truthy THEN Val(matched_key) ELSE raw_key,
         fuzzy |-> truthy /\ Val(matched_key) # raw_key]

\* matched_key = raw_key if raw_key in records else match_existing_key(...)
resolve_key(name, club, records, threshold) ==
    resolved(canonical_key(name),
             IF HasKey(records, canonical_key(name)) THEN Some(canonical_key(name))
             ELSE match_existing_key(name, club, records, threshold))

\* records[key], for a key of the registry
record_of(records, key) == records[KeyIndex(records, key)]

\* the registry with rec in the place of the record of its key (the loop
\* bodies assign to the dict that ensure_record returned)
put_record(records, rec) ==
    [records EXCEPT ![KeyIndex(records, rec.key)] = rec]

count_fuzzy(mapping_stats, fuzzy) ==
    [mapping_stats EXCEPT !.fuzzy_matches = IF fuzzy THEN @ + 1 ELSE @]

\* st is [records, mapping_stats]; each fold_* is one iteration of its loop.
ultimate_fields(rec, name, row) ==
    [rec EXCEPT
       !.name = first_non_empty(rec.name, name),
       !.club = StripUpper(first_non_empty(row.Club, rec.club)),
       !.pos = first_non_empty(normalize_position(row.Position), rec.pos),
       !.sources = @ \cup {"ultimate"},
       !.ultimate = Some(row)]

update_ultimate(records, key, name, row) ==
    put_record(records, ultimate_fields(record_of(records, key), name, row))

store_ultimate(st, row, name, key) ==
    [records |-> update_ultimate(ensure_record(st.records, key, name),
                                 key, name, row),
     mapping_stats |->
         [st.mapping_stats EXCEPT
            !.manual_alias_hits = IF key # nkey(name) THEN @ + 1 ELSE @]]

fold_ultimate(st, row) ==
    IF Strip(row.Player) = << >> THEN st
    ELSE store_ultimate(st, row, Strip(row.Player), canonical_key(Strip(row.Player)))

\* the loop body of the rankings with the name of the row first
rankings_fields_latest_name(rec, name, row) ==
    [rec EXCEPT
       !.name = first_non_empty(name, rec.name),
       !.club = first_non_empty(StripUpper(row.Team), rec.club),
       !.pos = first_non_empty(normalize_position(row.Position), rec.pos),
       !.sources = @ \cup {"rankings"},
       !.rankings = Some(row)]

rankings_fields(rec, name, row) ==
    [rec EXCEPT
       !.name = first_non_empty(rec.name, name),
       !.club = first_non_empty(StripUpper(row.Team), rec.club),
       !.pos = first_non_empty(normalize_position(row.Position), rec.pos),
       !.sources = @ \cup {"rankings"},
       !.rankings = Some(row)]

update_rankings(records, key, name, row) ==
    put_record(records, rankings_fields(record_of(records, key), name, row))

store_rankings(st, row, name, r) ==
    [records |-> update_rankings(ensure_record(st.records, r.key, name),
                                 r.key, name, row),
     mapping_stats |-> count_fuzzy(st.mapping_stats, r.fuzzy)]

fold_rankings(st, row) ==
    IF Strip(row.Name) = << >> THEN st
    ELSE store_rankings(st, row, Strip(row.Name),
                        resolve_key(Strip(row.Name), row.Team, st.records,
                                    THRESHOLD_RANKINGS))

\* the loop body of the data with the stored club and position first
data_fields_first_wins(rec, name, row) ==
    [rec EXCEPT
       !.name = first_non_empty(rec.name, name),
       !.club = first_non_empty(rec.club, StripUpper(row.Club)),
       !.pos = first_non_empty(rec.pos, normalize_position(row.Position)),
       !.sources = @ \cup {"data"},
       !.data = Some(row)]

data_fields(rec, name, row) ==
    [rec EXCEPT
       !.name = first_non_empty(rec.name, name),
       !.club = first_non_empty(StripUpper(row.Club), rec.club),
       !.pos = first_non_empty(normalize_position(row.Position), rec.pos),
       !.sources = @ \cup {"data"},
       !.data = Some(row)]

update_data(records, key, name, row) ==
    put_record(records, data_fields(record_of(records, key), name, row))

store_data(st, row, name, r) ==
    [records |-> update_data(ensure_record(st.records, r.key, name),
                                 r.key, name, row),
     mapping_stats |-> count_fuzzy(st.mapping_stats, r.fuzzy)]

fold_data(st, row) ==
    IF Strip(row.Player) = << >> THEN st
    ELSE store_data(st, row, Strip(row.Player),
                    resolve_key(Strip(row.Player), StripUpper(row.Club),
                                st.records, THRESHOLD_DATA))

\* the ranks with the rank of the latest row of an analyst on a sheet
merge_rank_latest(expert_ranks, pos, analyst, rank) ==
    LET pos_map == IF pos \in DOMAIN expert_ranks THEN expert_ranks[pos] ELSE << >>
    IN  (pos :> ((analyst :> rank) @@ pos_map)) @@ expert_ranks

\* pos_map = rec["expert_ranks"].setdefault(pos, {}); keep the lower rank
merge_rank(expert_ranks, pos, analyst, rank) ==
    LET pos_map == IF pos \in DOMAIN expert_ranks THEN expert_ranks[pos] ELSE << >>
        kept == IF analyst \in DOMAIN pos_map /\ ~(rank < pos_map[analyst])
                THEN pos_map
                ELSE (analyst :> rank) @@ pos_map
    IN  (pos :> kept) @@ expert_ranks

experts_fields(rec, row) ==
    [rec EXCEPT
       !.name = first_non_empty(rec.name, row.player),
       !.pos = first_non_empty(rec.pos, row.pos),
       !.sources = @ \cup {"experts"},
       !.expert_ranks = merge_rank(@, row.pos, row.analyst, row.rank)]

update_experts(records, key, row) ==
    put_record(records, experts_fields(record_of(records, key), row))

store_experts(st, row, r) ==
    [records |-> update_experts(ensure_record(st.records, r.key, row.player),
                                r.key, row),
     mapping_stats |-> count_fuzzy(st.mapping_stats, r.fuzzy)]

fold_experts(st, row) ==
    store_experts(st, row,
                  resolve_key(row.player, << >>, st.records, THRESHOLD_EXPERTS))

fold_row(st, source, row) ==
    CASE source = "ultimate" -> fold_ultimate(st, row)
      [] source = "rankings" -> fold_rankings(st, row)
      [] source = "data" -> fold_data(st, row)
      [] source = "experts" -> fold_experts(st, row)

---------------------------------------------------------------------------
(* Output rows (step 5 of build_datasets).                                 *)

Max2(a, b) == IF a >= b THEN a ELSE b

Min2(a, b) == IF a <= b THEN a ELSE b

\* clamp(value, min_value, max_value)
clamp(value, min_value, max_value) == Max2(min_value, Min2(max_value, value))

SetMax(S) == CHOOSE x \in S : \A y \in S : y <= x

SetMin(S) == CHOOSE x \in S : \A y \in S : x <= y

RECURSIVE SeqSum(_)
SeqSum(s) == IF s = << >> THEN 0 ELSE Head(s) + SeqSum(Tail(s))

\* round(n / d) for d > 0, halves to the even neighbour
RoundDiv(n, d) ==
    LET q == n \div d
        r == n % d
    IN  IF 2 * r < d THEN q
        ELSE IF 2 * r > d THEN q + 1
        ELSE IF q % 2 = 0 THEN q ELSE q + 1

\* the values of a list of optional values that are not None, in order
Present(opts) ==
    LET kept == SelectSeq(opts, LAMBDA o : ~IsNone(o))
    IN  [i \in 1..Len(kept) |-> Val(kept[i])]

\* next((x for x in values if <present>), default)
RECURSIVE FirstSuch(_, _, _)
FirstSuch(values, empty, default) ==
    IF values = << >> THEN default
    ELSE IF Head(values) # empty THEN Head(values)
    ELSE FirstSuch(Tail(values), empty, default)

\* statistics.median of one to three numbers, times two
median_twice(values) ==
    IF Len(values) = 1 THEN 2 * values[1]
    ELSE IF Len(values) = 2 THEN values[1] + values[2]
    ELSE 2 * (CHOOSE m \in Range(values) :
                 /\ Cardinality({i \in 1..3 : values[i] <= m}) >= 2
                 /\ Cardinality({i \in 1..3 : values[i] >= m}) >= 2)

Slot(opt, empty_row) == IF IsNone(opt) THEN empty_row ELSE Val(opt)

\* lines 479-486
PDF_ROLE_TERMS ==
    { <<"r","o","l","e">>,
      <<"h","a","l","f"," ","b","a","c","k">>,
      <<"k","i","c","k"," ","i","n">>,
      <<"w","i","n","g">>,
      <<"f","o","r","w","a","r","d"," ","r","o","l","e">>,
      <<"d","e","f","e","n","d","e","r"," ","r","o","l","e">> }

\* lines 487-495
PDF_MIDFIELD_TERMS ==
    { <<"i","n","s","i","d","e"," ","m","i","d">>,
      <<"m","i","d"," ","t","i","m","e">>,
      <<"m","i","d","f","i","e","l","d"," ","r","o","l","e">>,
      <<"m","i","d","f","i","e","l","d"," ","m","i","n","u","t","e","s">>,
      <<"c","e","n","t","r","e"," ","b","o","u","n","c","e">>,
      <<"c","b","a">>,
      <<"o","n","-","b","a","l","l">> }

\* lines 496-504
PDF_SEASON_OUT_TERMS ==
    { <<"m","i","s","s"," ","t","h","e"," ","e","n","t","i","r","e","t","y">>,
      <<"m","i","s","s"," ","t","h","e"," ","e","n","t","i","r","e">>,
      <<"o","u","t"," ","f","o","r"," ","s","e","a","s","o","n">>,
      <<"s","e","a","s","o","n","-","e","n","d","i","n","g">>,
      <<"s","e","a","s","o","n"," ","e","n","d","i","n","g">>,
      <<"w","i","l","l"," ","m","i","s","s"," ","t","h","e"," ","s","e","a","s","o","n">>,
      <<"m","i","s","s"," ","t","h","e"," ","2","0","2","6"," ","s","e","a","s","o","n">> }

\* line 463
SENTENCE_TERMS ==
    { <<"i","n","j","u","r","y">>,
      <<"r","e","t","u","r","n">>,
      <<"r","i","s","k">>,
      <<"c","o","n","c","e","r","n","s">>,
      <<"o","p","p","o","r","t","u","n","i","t","i","e","s">> }

\* line 718
BOILERPLATE_TERMS ==
    { <<"r","a","n","g","e"," ","o","f"," ","o","u","t","c","o","m","e","s">>,
      <<"s","u","p","e","r","c","o","a","c","h"," ","2","0","2","3">> }

\* line 725
CONTEXT_TERMS ==
    { <<"r","o","l","e">>,
      <<"i","n","j","u","r","y">>,
      <<"o","p","p","o","r","t","u","n","i","t","i","e","s">>,
      <<"c","o","n","c","e","r","n","s">>,
      <<"c","b","a">>,
      <<"c","e","n","t","r","e"," ","b","o","u","n","c","e">>,
      <<"i","n","s","i","d","e"," ","m","i","d">>,
      <<"m","i","d"," ","t","i","m","e">>,
      <<"m","i","d","f","i","e","l","d"," ","r","o","l","e">> }

NoInsight ==
    [note |-> << >>, role_change |-> 0, midfield_uplift |-> 0,
     season_out |-> 0, source_count |-> 0]

\* any(term in text for term in terms)
any_term(text, terms) == \E term \in terms : Contains(text, term)

\* sum(ch.isdigit() for ch in text)
digit_count(text) == Cardinality({i \in 1..Len(text) : text[i] \in Digits})

\* sum(ch.isdigit() for ch in text) / max(1, len(text)) > percent / 100; the
\* two sides are never so close that the rounding of the doubles decides
digit_ratio_above(text, percent) ==
    100 * digit_count(text) > percent * Max2(1, Len(text))

DECIMALS == <<"0","1","2","3","4","5","6","7","8","9">>

\* str(n) of a natural number
RECURSIVE str_of(_)
str_of(n) ==
    IF n < 10 THEN <<DECIMALS[n + 1]>>
    ELSE str_of(n \div 10) \o <<DECIMALS[(n % 10) + 1]>>

\* the places where re.split(r"(?<=[.!?])\s+", text) cuts: each ".", "!" or
\* "?" that white space follows (clean_pdf_text, line 615, leaves no white
\* space but single blanks in a page)
sentence_ends(text) ==
    {i \in 1..(Len(text) - 1) : text[i] \in {".", "!", "?"} /\ text[i + 1] = " "}

\* the end of the white space that starts after position at
after_blanks(text, at) ==
    IF \E j \in (at + 1)..Len(text) : text[j] # " "
    THEN SetMin({j \in (at + 1)..Len(text) : text[j] # " "})
    ELSE Len(text) + 1

\* re.split(r"(?<=[.!?])\s+", text)
split_sentences(text) ==
    LET ends == sentence_ends(text)
        nth(k) == CHOOSE e \in ends : Cardinality({x \in ends : x < e}) = k - 1
        first(k) == IF k = 1 THEN 1 ELSE after_blanks(text, nth(k - 1))
        last(k) == IF k <= Cardinality(ends) THEN nth(k) ELSE Len(text)
    IN  [k \in 1..(Cardinality(ends) + 1) |-> SubSeq(text, first(k), last(k))]

\* lines 439-442, sentence being the first sentence of the note
shortened(sentence, max_len) ==
    IF Len(sentence) <= max_len THEN sentence
    ELSE RStrip(SubSeq(sentence, 1, max_len - 1)) \o <<".", ".", ".">>

summarize_note(text, max_len) ==
    IF Strip(text) = << >> THEN << >>
    ELSE shortened(split_sentences(Strip(text))[1], max_len)

MIN_SENTENCE == 28

NOTE_MAX == 170

\* lines 456-468: the score of one sentence of a snippet
sentence_score(text, player_lower) ==
    (IF Contains(Lower(text), player_lower) THEN 4 ELSE 0)
    + (IF any_term(Lower(text), PDF_SEASON_OUT_TERMS) THEN 5 ELSE 0)
    + (IF any_term(Lower(text), PDF_MIDFIELD_TERMS) THEN 3 ELSE 0)
    + (IF any_term(Lower(text), SENTENCE_TERMS) THEN 2 ELSE 0)
    - (IF digit_ratio_above(text, 22) THEN 2 ELSE 0)

\* lines 451-472: the first of the sentences of at least 28 characters that
\* has the highest score, 0 if no sentence is that long
best_sentence_of(texts, player_lower) ==
    LET long == {k \in 1..Len(texts) : Len(texts[k]) >= MIN_SENTENCE}
        score == [k \in long |-> sentence_score(texts[k], player_lower)]
    IN  IF long = {} THEN 0
        ELSE SetMin({k \in long : \A j \in long : score[j] <= score[k]})

stripped_sentences(snippet) ==
    [k \in 1..Len(split_sentences(Strip(snippet))) |->
        Strip(split_sentences(Strip(snippet))[k])]

chosen_sentence(snippet, texts, best) ==
    IF best = 0 THEN summarize_note(snippet, NOTE_MAX)
    ELSE summarize_note(texts[best], NOTE_MAX)

best_pdf_sentence(snippet, player_name) ==
    chosen_sentence(snippet, stripped_sentences(snippet),
                    best_sentence_of(stripped_sentences(snippet), Lower(player_name)))

\* \w of a pattern on str
WordChars == UpperLetters \cup LowerLetters \cup Digits \cup {"_"}

\* \b between the characters at and at + 1 of text
word_boundary(text, at) ==
    (at >= 1 /\ text[at] \in WordChars)
        # (at + 1 <= Len(text) /\ text[at + 1] \in WordChars)

\* re.compile(rf"\b{re.escape(player_lower)}\b").search(page_lower): where
\* the leftmost match starts, 0 if there is none
pattern_search(player_lower, page_lower) ==
    LET width == Len(player_lower)
        matches == {s \in 1..(Len(page_lower) - width + 1) :
                       /\ SubSeq(page_lower, s, s + width - 1) = player_lower
                       /\ word_boundary(page_lower, s - 1)
                       /\ word_boundary(page_lower, s + width - 1)}
    IN  IF matches = {} THEN 0 ELSE SetMin(matches)

WINDOW_BEFORE == 220

WINDOW_AFTER == 320

\* lines 666-668, the match starting at the character at of the page
snippet_of(page_text, at, width) ==
    Strip(SubSeq(page_text, Max2(0, at - 1 - WINDOW_BEFORE) + 1,
                 Min2(Len(page_text), at - 1 + width + WINDOW_AFTER)))

\* lines 679-692
snippet_score(snippet) ==
    (IF any_term(Lower(snippet), PDF_ROLE_TERMS) THEN 2 ELSE 0)
    + (IF any_term(Lower(snippet), PDF_MIDFIELD_TERMS) THEN 3 ELSE 0)
    + (IF any_term(Lower(snippet), PDF_SEASON_OUT_TERMS) THEN 4 ELSE 0)
    + (IF Contains(Lower(snippet), <<"o","p","p","o","r","t","u","n","i","t","i","e","s">>)
          \/ Contains(Lower(snippet), <<"c","o","n","c","e","r","n","s">>)
       THEN 1 ELSE 0)
    - (IF digit_ratio_above(snippet, 22) THEN 2 ELSE 0)

\* line 694
snippet_entry(source_id, page_index, snippet) ==
    <<snippet_score(snippet), source_id, page_index, snippet>>

\* line 696
source_done_after_three(source_hits) == source_hits >= 3

source_done(source_hits) == source_hits >= 2

\* lines 658-697: the snippets of the pages of one source from page_index on,
\* source_hits pages of it having mentioned the player
RECURSIVE scan_pages(_, _, _, _, _)
scan_pages(player_lower, source_id, pages, page_index, source_hits) ==
    IF page_index > Len(pages) THEN << >>
    ELSE IF pattern_search(player_lower, Lower(pages[page_index])) = 0
    THEN scan_pages(player_lower, source_id, pages, page_index + 1, source_hits)
    ELSE <<snippet_entry(source_id, page_index,
                         snippet_of(pages[page_index],
                                    pattern_search(player_lower, Lower(pages[page_index])),
                                    Len(player_lower)))>>
         \o (IF source_done(source_hits + 1) THEN << >>
             ELSE scan_pages(player_lower, source_id, pages,
                             page_index + 1, source_hits + 1))

\* lines 656-697
RECURSIVE collect_snippets(_, _)
collect_snippets(player_lower, pdf_sources) ==
    IF pdf_sources = << >> THEN << >>
    ELSE scan_pages(player_lower, Head(pdf_sources)[1], Head(pdf_sources)[2], 1, 0)
         \o collect_snippets(player_lower, Tail(pdf_sources))

\* line 708, the key of the sort
snippet_key_longer_first(x) == <<x[1], Len(x[4])>>

snippet_key(x) == <<x[1], 0 - Len(x[4])>>

\* a < b of two keys
snippet_key_less(a, b) == a[1] < b[1] \/ (a[1] = b[1] /\ a[2] < b[2])

\* list.sort(key=..., reverse=True) keeps the order of equal keys
RECURSIVE insert_snippet(_, _)
insert_snippet(sorted, x) ==
    IF sorted = << >> THEN <<x>>
    ELSE IF snippet_key_less(snippet_key(Head(sorted)), snippet_key(x)) THEN <<x>> \o sorted
    ELSE <<Head(sorted)>> \o insert_snippet(Tail(sorted), x)

RECURSIVE sort_snippets(_)
sort_snippets(snippets) ==
    IF snippets = << >> THEN << >>
    ELSE insert_snippet(sort_snippets(SubSeq(snippets, 1, Len(snippets) - 1)),
                        snippets[Len(snippets)])

\* lines 718-728: a sentence that is neither boilerplate nor a row of numbers
worth_keeping(short_lower, short) ==
    /\ any_term(short_lower, BOILERPLATE_TERMS)
          => any_term(short_lower, PDF_SEASON_OUT_TERMS)
    /\ digit_ratio_above(short, 18)
          => (any_term(short_lower, PDF_SEASON_OUT_TERMS)
                \/ any_term(short_lower, CONTEXT_TERMS))

\* lines 712-731: the snippet x gives the sentence short to the note
kept_sentence(x, short, seen) ==
    /\ x[1] >= 2
    /\ worth_keeping(Lower(short), short)
    /\ nkey(short) # << >> /\ nkey(short) \notin seen

\* line 733
note_entry(x, short) ==
    x[2] \o <<" ", "p">> \o str_of(x[3]) \o <<":", " ">> \o short

MAX_SENTENCES == 2

\* lines 711-735
RECURSIVE select_best(_, _, _, _, _)
select_step(player_name, sorted, i, seen, best, short) ==
    IF kept_sentence(sorted[i], short, seen)
    THEN select_best(player_name, sorted, i + 1, seen \cup {nkey(short)},
                     Append(best, note_entry(sorted[i], short)))
    ELSE select_best(player_name, sorted, i + 1, seen, best)

select_best(player_name, sorted, i, seen, best) ==
    IF i > Len(sorted) \/ Len(best) >= MAX_SENTENCES THEN best
    ELSE select_step(player_name, sorted, i, seen, best,
                     best_pdf_sentence(sorted[i][4], player_name))

\* " || ".join(best)
RECURSIVE join_notes(_)
join_notes(best) ==
    IF best = << >> THEN << >>
    ELSE IF Len(best) = 1 THEN best[1]
    ELSE best[1] \o <<" ", "|", "|", " ">> \o join_notes(Tail(best))

flag(hit) == IF hit THEN 1 ELSE 0

\* lines 699-743
insight_of(player_name, snippets) ==
    IF snippets = << >> THEN NoInsight
    ELSE [note |-> join_notes(select_best(player_name, sort_snippets(snippets), 1, {}, << >>)),
          role_change |->
              flag(\E i \in 1..Len(snippets) : any_term(Lower(snippets[i][4]), PDF_ROLE_TERMS)),
          midfield_uplift |->
              flag(\E i \in 1..Len(snippets) : any_term(Lower(snippets[i][4]), PDF_MIDFIELD_TERMS)),
          season_out |->
              flag(\E i \in 1..Len(snippets) : any_term(Lower(snippets[i][4]), PDF_SEASON_OUT_TERMS)),
          source_count |-> Cardinality({snippets[i][2] : i \in 1..Len(snippets)})]

extract_pdf_insight(player_name, pdf_sources) ==
    IF player_name = << >> \/ pdf_sources = << >> THEN NoInsight
    ELSE insight_of(player_name, collect_snippets(Lower(player_name), pdf_sources))


MANUAL_PLAYER_OVERRIDES ==
       (<<"g","r","y","a","n","m","i","e","r","s">> :> [category |-> "value", note |-> FALSE])
    @@ (<<"c","h","r","i","s","t","i","a","n","p","e","t","r","a","c","c","a">> :> [category |-> "premium", note |-> FALSE])
    @@ (<<"t","o","m","m","c","c","a","r","t","h","y">> :> [category |-> "smoky", note |-> TRUE])
    @@ (<<"m","i","l","e","s","b","e","r","g","m","a","n">> :> [category |-> "smoky", note |-> TRUE])
    @@ (<<"a","r","c","h","i","e","r","o","b","e","r","t","s">> :> [category |-> "smoky", note |-> TRUE])
    @@ (<<"c","a","l","e","b","w","i","n","d","s","o","r">> :> [category |-> "smoky", note |-> TRUE])
    @@ (<<"j","o","e","l","f","r","e","i","j","a","h">> :> [category |-> "smoky", note |-> TRUE])
    @@ (<<"j","a","m","e","s","w","o","r","p","e","l">> :> [category |-> "smoky", note |-> TRUE])
    @@ (<<"h","a","r","r","y","r","o","w","s","t","o","n">> :> [category |-> "smoky", note |-> TRUE])
    @@ (<<"n","i","c","h","o","l","a","s","m","a","d","d","e","n">> :> [category |-> "smoky", note |-> TRUE])
    @@ (<<"d","a","n","t","e","v","i","s","e","n","t","i","n","i">> :> [category |-> "smoky", note |-> TRUE])
    @@ (<<"l","a","c","h","l","a","n","m","c","a","n","d","r","e","w">> :> [category |-> "smoky", note |-> TRUE])
    @@ (<<"m","a","x","h","a","l","l">> :> [category |-> "smoky", note |-> TRUE])
    @@ (<<"c","o","n","n","o","r","m","a","c","d","o","n","a","l","d">> :> [category |-> "smoky", note |-> TRUE])
    @@ (<<"j","o","s","h","r","a","c","h","e","l","e">> :> [category |-> "smoky", note |-> TRUE])
    @@ (<<"c","o","n","n","o","r","b","u","d","a","r","i","c","k">> :> [category |-> "smoky", note |-> TRUE])
    @@ (<<"s","a","m","b","u","t","l","e","r">> :> [category |-> "smoky", note |-> TRUE])
    @@ (<<"m","a","t","t","a","e","s","p","h","i","l","l","i","p","o","u">> :> [category |-> "smoky", note |-> TRUE])
    @@ (<<"d","e","v","e","n","r","o","b","e","r","t","s","o","n">> :> [category |-> "smoky", note |-> TRUE])
    @@ (<<"t","o","d","d","m","a","r","s","h","a","l","l">> :> [category |-> "smoky", note |-> TRUE])
    @@ (<<"l","e","o","l","o","m","b","a","r","d">> :> [category |-> "smoky", note |-> TRUE])
    @@ (<<"l","e","o","n","a","r","d","o","l","o","m","b","a","r","d">> :> [category |-> "smoky", note |-> TRUE])
    @@ (<<"z","e","k","e","u","w","l","a","n","d">> :> [category |-> "rookie", note |-> TRUE])
    @@ (<<"h","a","r","r","y","d","e","a","n">> :> [category |-> "rookie", note |-> TRUE])
    @@ (<<"j","o","r","d","a","n","b","o","y","d">> :> [category |-> "rookie", note |-> TRUE])
    @@ (<<"s","a","m","g","r","l","j">> :> [category |-> "rookie", note |-> TRUE])
    @@ (<<"j","a","c","o","b","f","a","r","r","o","w">> :> [category |-> "rookie", note |-> TRUE])
    @@ (<<"j","o","s","h","l","i","n","d","s","a","y">> :> [category |-> "rookie", note |-> TRUE])
    @@ (<<"j","a","i","s","e","r","o","n","g">> :> [category |-> "rookie", note |-> TRUE])
    @@ (<<"l","a","c","h","i","e","j","a","c","q","u","e","s">> :> [category |-> "rookie", note |-> TRUE])
    @@ (<<"w","a","d","e","d","e","r","k","s","e","n">> :> [category |-> "rookie", note |-> TRUE])
    @@ (<<"j","a","g","g","a","s","m","i","t","h">> :> [category |-> "rookie", note |-> TRUE])
    @@ (<<"a","r","t","h","u","r","j","o","n","e","s">> :> [category |-> "rookie", note |-> TRUE])

NoOverride == [category |-> "", note |-> FALSE]

\* MANUAL_PLAYER_OVERRIDES.get(canonical_key(name))
\*     or MANUAL_PLAYER_OVERRIDES.get(nkey(name), {})
manual_override_of(name) ==
    IF canonical_key(name) \in DOMAIN MANUAL_PLAYER_OVERRIDES
    THEN MANUAL_PLAYER_OVERRIDES[canonical_key(name)]
    ELSE IF nkey(name) \in DOMAIN MANUAL_PLAYER_OVERRIDES
         THEN MANUAL_PLAYER_OVERRIDES[nkey(name)]
         ELSE NoOverride

UPSIDE_PHRASES ==
    { <<"r","o","l","e",":">>,
      <<"l","i","k","e","l","y">>,
      <<"m","i","d"," ","t","i","m","e">>,
      <<"b","r","e","a","k","o","u","t">>,
      <<"b","u","m","p">>,
      <<"i","n","s","i","d","e"," ","m","i","d">>,
      <<"m","i","d","f","i","e","l","d">>,
      <<"c","e","n","t","r","e"," ","b","o","u","n","c","e">>,
      <<"o","n","-","b","a","l","l">> }

upside_note_of(data_notes, pdf_notes) ==
    LET note_lower == Lower(data_notes \o <<" ">> \o pdf_notes)
    IN  \E phrase \in UPSIDE_PHRASES : Contains(note_lower, phrase)

\* avg_score_2025 >= 95 and games25 >= 14, both present
proven_scorer_of(avg_score_2025, games25) ==
    /\ ~IsNone(avg_score_2025) /\ Val(avg_score_2025) >= 950
    /\ ~IsNone(games25) /\ Val(games25) >= 14

\* the ladder with the value rule above the rookie and the smoky rule
category_ladder_value_first(proj_score, season_out, relative_value, proven_scorer, age, games25, adp_value_gap, upside_note) ==
    IF IsNone(proj_score) THEN "depth"
    ELSE IF season_out = 1 THEN "depth"
    ELSE IF Val(proj_score) >= 1020
            \/ (~IsNone(relative_value) /\ Val(relative_value) >= 240)
         THEN "premium"
    ELSE IF proven_scorer /\ Val(proj_score) >= 970 THEN "premium"
    ELSE IF \/ proven_scorer
            \/ (~IsNone(relative_value) /\ Val(relative_value) >= 100)
            \/ (~IsNone(adp_value_gap) /\ Val(adp_value_gap) >= 40)
         THEN "value"
    ELSE IF /\ ~IsNone(age) /\ Val(age) <= 21
            /\ ~IsNone(games25) /\ Val(games25) <= 8
         THEN "rookie"
    ELSE IF upside_note THEN "smoky"
    ELSE "depth"

\* the if / elif ladder of lines 1013-1037
category_ladder(proj_score, season_out, relative_value, proven_scorer, age, games25, adp_value_gap, upside_note) ==
    IF IsNone(proj_score) THEN "depth"
    ELSE IF season_out = 1 THEN "depth"
    ELSE IF Val(proj_score) >= 1020
            \/ (~IsNone(relative_value) /\ Val(relative_value) >= 240)
         THEN "premium"
    ELSE IF proven_scorer /\ Val(proj_score) >= 970 THEN "premium"
    ELSE IF /\ ~IsNone(age) /\ Val(age) <= 21
            /\ ~IsNone(games25) /\ Val(games25) <= 8
         THEN "rookie"
    ELSE IF /\ ~proven_scorer
            /\ \/ (~IsNone(relative_value) /\ Val(relative_value) >= 160
                   /\ upside_note)
               \/ (~IsNone(adp_value_gap) /\ Val(adp_value_gap) >= 80
                   /\ upside_note)
         THEN "smoky"
    ELSE IF \/ proven_scorer
            \/ (~IsNone(relative_value) /\ Val(relative_value) >= 100)
            \/ (~IsNone(adp_value_gap) /\ Val(adp_value_gap) >= 40)
         THEN "value"
    ELSE "depth"

\* lines 1039-1049: the override of the row-building pass
first_pass_override(category, manual_category, season_out, proven_scorer) ==
    IF manual_category \in {"premium", "value", "rookie", "depth"}
    THEN manual_category
    ELSE IF /\ manual_category = "smoky"
            /\ season_out = 0
            /\ ~proven_scorer
            /\ category \in {"depth", "value", "rookie"}
         THEN "smoky"
         ELSE category

\* the confidence score without the penalty of the conflicts
confidence_score_flat(source_count, conflicts, data_notes) ==
    clamp(42 + 13 * source_count + (IF data_notes # << >> THEN 3 ELSE 0), 10, 99)

\* lines 983-987, in hundredths
confidence_score_of(source_count, conflicts, data_notes) ==
    LET base == 42 + 13 * source_count - 8 * conflicts
        noted == IF data_notes # << >> THEN base + 3 ELSE base
    IN  clamp(noted, 10, 99)

\* the label with high from 0.95 on
confidence_label_strict(confidence_score) ==
    IF confidence_score >= 95 THEN "high"
    ELSE IF confidence_score >= 62 THEN "medium"
    ELSE "low"

\* lines 988-993
confidence_label_of(confidence_score) ==
    IF confidence_score >= 80 THEN "high"
    ELSE IF confidence_score >= 62 THEN "medium"
    ELSE "low"

RECURSIVE FcnSum(_, _)
FcnSum(f, S) ==
    IF S = {} THEN 0
    ELSE LET x == CHOOSE x \in S : TRUE
         IN  f[x] + FcnSum(f, S \ {x})

\* the ranks of the primary position, else of the first position in
\* POS_ORDER that has any (lines 938-944)
pos_rank_map_of(expert_ranks, primary_pos) ==
    LET own == IF primary_pos \in DOMAIN expert_ranks
               THEN expert_ranks[primary_pos] ELSE << >>
        ranked == SelectSeq(POS_ORDER,
                            LAMBDA p : p \in DOMAIN expert_ranks
                                       /\ DOMAIN expert_ranks[p] # {})
    IN  IF DOMAIN own = {} /\ primary_pos # << >> /\ ranked # << >>
        THEN expert_ranks[ranked[1]]
        ELSE own

\* lines 952-957 and 1084, in thousandths
expert_percentile_of(expert_consensus_rank, pos_pool_size) ==
    IF ~IsNone(expert_consensus_rank) /\ pos_pool_size > 1
    THEN clamp(RoundDiv(100000 * (pos_pool_size - 1)
                        - 1000 * (Val(expert_consensus_rank) - 100),
                        100 * (pos_pool_size - 1)),
               0, 1000)
    ELSE 500

\* the club the registry holds instead of the clubs of the rows
club_of_registry(rec, r_csv, r_u, r_d) == StripUpper(rec.club)

\* lines 858-864
club_of(rec, r_csv, r_u, r_d) ==
    FirstSuch(<<StripUpper(r_csv.Team), StripUpper(r_u.Club),
                StripUpper(r_d.Club), StripUpper(rec.club)>>,
              << >>, << >>)

\* lines 866-873 with the ultimate row before the rankings row
pos_of_ultimate_first(rec, r_csv, r_u, r_d) ==
    FirstSuch(<<normalize_position(r_u.Position),
                normalize_position(r_csv.Position),
                normalize_position(r_d.Position),
                normalize_position(rec.pos)>>,
              << >>, << >>)

\* lines 866-873
pos_of(rec, r_csv, r_u, r_d) ==
    FirstSuch(<<normalize_position(r_csv.Position),
                normalize_position(r_u.Position),
                normalize_position(r_d.Position),
                normalize_position(rec.pos)>>,
              << >>, << >>)

\* A Projected cell of a rankings or data row may hold a number written with
\* two decimals: <<n, 100>> for n hundredths, next to <<n>> for n tenths.
Fine(n) == <<n, 100>>

\* the number of a cell in hundredths
hundredths(cell) ==
    IF cell = << >> THEN None
    ELSE IF Len(cell) = 2 THEN Some(cell[1])
    ELSE Some(10 * cell[1])

\* float(text) of a text that spells n / t, for an integer n
double_of(n, t) == IF n < 0 THEN dbl_neg(dbl_div(0 - n, t)) ELSE dbl_div(n, t)

\* x / 2
dbl_half(x) == IF x.bits = << >> THEN x ELSE [x EXCEPT !.exp = @ - 1]

\* how dbl_div(n, t) lies to n / t: 1 above, -1 below, 0 on it
rounding_of(bits, sticky) ==
    IF Len(bits) <= MANT_DIG THEN (IF sticky THEN 0 - 1 ELSE 0)
    ELSE IF /\ bits[MANT_DIG + 1] = 1
            /\ \/ sticky
               \/ bits[MANT_DIG] = 1
               \/ \E i \in (MANT_DIG + 2)..Len(bits) : bits[i] = 1
    THEN 1
    ELSE IF sticky \/ \E i \in (MANT_DIG + 1)..Len(bits) : bits[i] = 1 THEN 0 - 1
    ELSE 0

quotient_rounding(whole, q) == rounding_of(from_limbs(q.limbs \o <<whole>>), q.rest # 0)

quotient_error(n, t) == quotient_rounding(n \div t, quotient_limbs(n % t, t, QUOTIENT_LIMBS))

\* how the double x lies to n / t, for n > 0: 1 above, -1 below, 0 on it
exact_sign(x, n, t) ==
    IF x = dbl_div(n, t) THEN quotient_error(n, t)
    ELSE IF dbl_greater(x, dbl_div(n, t)) THEN 1 ELSE 0 - 1

\* n / t lies halfway between two tenths
halfway(n, t) == (20 * n) % t = 0 /\ ((20 * n) \div t) % 2 = 1

\* round(x, 1) in tenths, for a double x > 0 next to n / t halfway between
\* two tenths: the tenth on the side of x, the even one when x is n / t
tie_up(x, n, t) ==
    IF exact_sign(x, n, t) > 0 THEN ((10 * n) \div t) + 1
    ELSE IF exact_sign(x, n, t) < 0 THEN (10 * n) \div t
    ELSE IF ((10 * n) \div t) % 2 = 0 THEN (10 * n) \div t
    ELSE ((10 * n) \div t) + 1

tie_tenths(x, n, t) ==
    IF n < 0 THEN 0 - tie_up(dbl_neg(x), 0 - n, t) ELSE tie_up(x, n, t)

\* statistics.median of one to three numbers given in hundredths, as the
\* double the code computes
median_double(values) ==
    IF Len(values) = 2
    THEN dbl_half(dbl_add(double_of(values[1], 100), double_of(values[2], 100)))
    ELSE double_of(median_twice(values) \div 2, 100)

\* round(median, 1) in tenths
rounded_median(values) ==
    IF halfway(median_twice(values), 200)
    THEN tie_tenths(median_double(values), median_twice(values), 200)
    ELSE RoundDiv(median_twice(values), 20)

\* round(hi - lo, 1) in tenths, for hi >= lo in hundredths
rounded_spread(hi, lo) ==
    IF halfway(hi - lo, 100)
    THEN tie_tenths(dbl_sub(double_of(hi, 100), double_of(lo, 100)), hi - lo, 100)
    ELSE RoundDiv(hi - lo, 10)

\* the projected score with 0.0 for a player no source projects
proj_score_or_zero(proj_values) ==
    IF proj_values # << >>
    THEN Some(rounded_median(proj_values))
    ELSE Some(0)

\* lines 879-885: the median of the candidates (in hundredths), rounded to
\* one decimal (in tenths)
proj_score_of(proj_values) ==
    IF proj_values # << >>
    THEN Some(rounded_median(proj_values))
    ELSE None

\* line 886: the spread of the candidates (in hundredths), rounded to one
\* decimal (in tenths)
proj_spread_of(proj_values) ==
    IF Len(proj_values) >= 2
    THEN rounded_spread(SetMax(Range(proj_values)), SetMin(Range(proj_values)))
    ELSE 0

\* lines 945-950, in hundredths
expert_consensus_rank_of(pos_rank_map) ==
    IF Cardinality(DOMAIN pos_rank_map) > 0
    THEN Some(RoundDiv(100 * FcnSum(pos_rank_map, DOMAIN pos_rank_map),
                       Cardinality(DOMAIN pos_rank_map)))
    ELSE None

\* line 951
pos_pool_size_of(primary_pos, sheet_sizes) ==
    IF primary_pos # << >> /\ primary_pos \in DOMAIN sheet_sizes
    THEN sheet_sizes[primary_pos] ELSE 0

\* line 959, in tenths
adp_value_gap_of(adp, market_rank) ==
    IF ~IsNone(adp) /\ ~IsNone(market_rank)
    THEN Some(Val(adp) - 10 * Val(market_rank))
    ELSE None

\* the flag raised only when the three rows name three clubs
club_conflict_three_way(r_csv, r_u, r_d) ==
    IF Cardinality({StripUpper(r_csv.Team), StripUpper(r_u.Club),
                    StripUpper(r_d.Club)} \ {<< >>}) > 2
    THEN 1 ELSE 0

\* lines 967-970
club_conflict_of(r_csv, r_u, r_d) ==
    IF Cardinality({StripUpper(r_csv.Team), StripUpper(r_u.Club),
                    StripUpper(r_d.Club)} \ {<< >>}) > 1
    THEN 1 ELSE 0

\* the positions of the three rows compared as texts
pos_set_values_as_text(r_csv, r_u, r_d) ==
    SelectSeq(<<{Upper(Strip(r_csv.Position))} \ {<< >>},
                {Upper(Strip(r_u.Position))} \ {<< >>},
                {Upper(Strip(r_d.Position))} \ {<< >>}>>,
              LAMBDA s : s # {})

\* lines 972-973: the position sets of the three rows that are not empty
pos_set_values_of(r_csv, r_u, r_d) ==
    SelectSeq(<<position_set(normalize_position(r_csv.Position)),
                position_set(normalize_position(r_u.Position)),
                position_set(normalize_position(r_d.Position))>>,
              LAMBDA s : s # {})

\* lines 974-976
position_conflict_of(pos_set_values) ==
    IF /\ Len(pos_set_values) >= 2
       /\ \E i \in 2..Len(pos_set_values) : pos_set_values[i] # pos_set_values[1]
    THEN 1 ELSE 0

\* lines 978-981
bye_conflict_of(r_csv, r_u) ==
    IF Cardinality({r_csv.Bye, r_u.BYES_Mid} \ {None}) > 1 THEN 1 ELSE 0

\* line 964
projection_conflict_of(proj_spread) == IF proj_spread >= 80 THEN 1 ELSE 0

---------------------------------------------------------------------------
(* safe_float and safe_int, on the text of a cell.  A float is finite,    *)
(* infinite or not a number; a finite one is kept as its sign, decimal    *)
(* mantissa and decimal exponent (mantissa * 10^exp10, the mantissa       *)
(* without trailing zeros).  An integer is kept the same way, with an     *)
(* exponent that is not negative.  A call that raises gives Raise(e).     *)

Raise(exception) == <<"raise", exception>>

Raised(result) == Len(result) = 2

Finite(neg, mantissa, exp10) == [kind |-> "finite", neg |-> neg, mantissa |-> mantissa, exp10 |-> exp10]

Infinite(neg) == [kind |-> "inf", neg |-> neg]

NaN == [kind |-> "nan"]

DigitValue == [c \in Digits |-> CHOOSE n \in 0..9 : <<"0","1","2","3","4","5","6","7","8","9">>[n + 1] = c]

\* the position of the first character of s that is in chars, 0 if none
RECURSIVE IndexFrom(_, _, _)
IndexFrom(s, chars, i) ==
    IF i > Len(s) THEN 0
    ELSE IF s[i] \in chars THEN i ELSE IndexFrom(s, chars, i + 1)

Before(s, at) == IF at = 0 THEN s ELSE SubSeq(s, 1, at - 1)

After(s, at) == IF at = 0 THEN << >> ELSE SubSeq(s, at + 1, Len(s))

\* digit ("_"? digit)*, the digits of a float literal
DigitPart(t) ==
    /\ t # << >>
    /\ \A i \in 1..Len(t) : t[i] \in Digits \cup {"_"}
    /\ Head(t) \in Digits
    /\ t[Len(t)] \in Digits
    /\ \A i \in 1..(Len(t) - 1) : ~(t[i] = "_" /\ t[i + 1] = "_")

RECURSIVE NatOf(_)
NatOf(t) ==
    IF t = << >> THEN 0
    ELSE IF t[Len(t)] = "_" THEN NatOf(SubSeq(t, 1, Len(t) - 1))
    ELSE 10 * NatOf(SubSeq(t, 1, Len(t) - 1)) + DigitValue[t[Len(t)]]

RECURSIVE Pow10(_)
Pow10(k) == IF k = 0 THEN 1 ELSE 10 * Pow10(k - 1)

RECURSIVE NumDigits(_)
NumDigits(n) == IF n < 10 THEN 1 ELSE 1 + NumDigits(n \div 10)

Signed(t) == t # << >> /\ Head(t) \in {"+", "-"}

Unsigned(t) == IF Signed(t) THEN Tail(t) ELSE t

Negative(t) == t # << >> /\ Head(t) = "-"

\* the decimal point and the exponent mark of a literal
exp_at(t) == IndexFrom(t, {"e", "E"}, 1)

dot_at(t) == IndexFrom(Before(t, exp_at(t)), {"."}, 1)

int_text(t) == Before(Before(t, exp_at(t)), dot_at(t))

frac_text(t) == After(Before(t, exp_at(t)), dot_at(t))

exp_text(t) == After(t, exp_at(t))

\* digitpart ["." [digitpart]] | "." digitpart, then an optional exponent
decimal_literal(t) ==
    /\ int_text(t) = << >> \/ DigitPart(int_text(t))
    /\ frac_text(t) = << >> \/ DigitPart(frac_text(t))
    /\ int_text(t) \o frac_text(t) # << >>
    /\ exp_at(t) # 0 => DigitPart(Unsigned(exp_text(t)))

exponent_of(t) ==
    IF Negative(exp_text(t)) THEN 0 - NatOf(Unsigned(exp_text(t)))
    ELSE NatOf(Unsigned(exp_text(t)))

\* the largest double is 1.7976931348623157e308; a literal rounds to
\* infinity from 1.797693134862315807...e308 on.  DBL_MAX_LEAD is the first
\* eight digits of that bound: mantissas have at most eight digits here.
DBL_MAX_10_EXP == 308

DBL_MAX_LEAD == 17976931

lead8(mantissa, digits) ==
    IF digits <= 8 THEN mantissa * Pow10(8 - digits)
    ELSE mantissa \div Pow10(digits - 8)

overflows(mantissa, exp10) ==
    \/ NumDigits(mantissa) + exp10 > DBL_MAX_10_EXP + 1
    \/ /\ NumDigits(mantissa) + exp10 = DBL_MAX_10_EXP + 1
       /\ lead8(mantissa, NumDigits(mantissa)) > DBL_MAX_LEAD

\* mantissa * 10^exp10 without the trailing zeros of the mantissa
RECURSIVE normalized(_, _, _)
normalized(neg, mantissa, exp10) ==
    IF mantissa = 0 THEN Finite(neg, 0, 0)
    ELSE IF mantissa % 10 = 0 THEN normalized(neg, mantissa \div 10, exp10 + 1)
    ELSE Finite(neg, mantissa, exp10)

\* the double of a decimal literal
float_value(neg, mantissa, exp10) ==
    IF mantissa # 0 /\ overflows(mantissa, exp10) THEN Infinite(neg)
    ELSE normalized(neg, mantissa, exp10)

float_unsigned(neg, t) ==
    IF Lower(t) \in {<<"i","n","f">>, <<"i","n","f","i","n","i","t","y">>} THEN Some(Infinite(neg))
    ELSE IF Lower(t) = <<"n","a","n">> THEN Some(NaN)
    ELSE IF decimal_literal(t) THEN Some(float_value(neg, NatOf(int_text(t) \o frac_text(t)), exponent_of(t) - Len(ReplaceAll(frac_text(t), <<"_">>, << >>))))
    ELSE Raise("ValueError")

\* line 125, float(text): blanks around the literal are skipped, then an
\* optional sign, then inf, infinity, nan or a decimal literal
python_float(text) == float_unsigned(Negative(Strip(text)), Unsigned(Strip(text)))

\* lines 121-123
without_symbols(text) == ReplaceAll(ReplaceAll(ReplaceAll(text, <<",">>, << >>), <<"%">>, << >>), <<"$">>, << >>)

\* lines 124-127: a ValueError of float() is caught
caught(result) == IF Raised(result) THEN None ELSE result

\* lines 115-127; value is None or Some(text)
safe_float(value) ==
    IF IsNone(value) THEN None
    ELSE IF Strip(Val(value)) = << >> THEN None
    ELSE caught(python_float(without_symbols(Strip(Val(value)))))

\* round(num) of a finite float, to the nearest integer, ties to even
rounded(f) ==
    IF f.exp10 >= 0 THEN [neg |-> f.neg, mantissa |-> f.mantissa, exp10 |-> f.exp10]
    ELSE IF 0 - f.exp10 > NumDigits(f.mantissa) THEN [neg |-> FALSE, mantissa |-> 0, exp10 |-> 0]
    ELSE [neg |-> f.neg /\ RoundDiv(f.mantissa, Pow10(0 - f.exp10)) # 0, mantissa |-> RoundDiv(f.mantissa, Pow10(0 - f.exp10)), exp10 |-> 0]

\* line 134, int(round(num)): round raises on a float that is not finite
int_round(f) ==
    IF f.kind = "nan" THEN Raise("ValueError")
    ELSE IF f.kind = "inf" THEN Raise("OverflowError")
    ELSE Some(rounded(f))

\* lines 130-134
safe_int_of(num) == IF IsNone(num) THEN None ELSE int_round(Val(num))

safe_int(value) == safe_int_of(safe_float(value))

\* lines 850-981: what the loop body reads off the record and its rows
row_inputs(rec, r_csv, r_u, r_d, sheet_sizes, pdf_sources) ==
    [name |-> Strip(rec.name),
     pos |-> pos_of(rec, r_csv, r_u, r_d),
     club |-> club_of(rec, r_csv, r_u, r_d),
     market_rank |-> r_csv.Rank,
     adp |-> OrElse(r_csv.ADP, r_d.ADP),
     proj_values |-> Present(<<hundredths(r_csv.Projected), hundredths(r_u.AVG),
                               hundredths(r_d.Projected)>>),
     bye |-> FirstSuch(<<r_csv.Bye, r_u.BYES_Mid, r_u.BYES_Early>>, None, None),
     age |-> r_u.Age,
     games25 |-> OrElse(r_u.GMS, r_d.Gm25),
     avg_score_2025 |-> OrElse(r_u.AVG, r_csv.Avg2025),
     relative_value |-> r_d.RelativeValue,
     data_notes |-> Strip(r_d.Notes),
     manual_override |-> manual_override_of(Strip(rec.name)),
     pdf_insight |-> extract_pdf_insight(Strip(rec.name), pdf_sources),
     pos_rank_map |-> pos_rank_map_of(rec.expert_ranks,
                                       primary_of(pos_of(rec, r_csv, r_u, r_d))),
     pos_pool_size |-> pos_pool_size_of(primary_of(pos_of(rec, r_csv, r_u, r_d)),
                                         sheet_sizes),
     club_conflict |-> club_conflict_of(r_csv, r_u, r_d),
     position_conflict |-> position_conflict_of(pos_set_values_of(r_csv, r_u, r_d)),
     bye_conflict |-> bye_conflict_of(r_csv, r_u),
     source_count |-> Cardinality(rec.sources),
     rankings_vorp |-> safe_float(r_csv.VORP),
     ultimate_price |-> safe_int(r_u.Price)]

\* lines 983-1138: the scores, the category and the row
output_row(v) ==
    LET proj_score == proj_score_of(v.proj_values)
        proj_spread == proj_spread_of(v.proj_values)
        projection_conflict == projection_conflict_of(proj_spread)
        expert_consensus_rank == expert_consensus_rank_of(v.pos_rank_map)
        adp_value_gap == adp_value_gap_of(v.adp, v.market_rank)
        confidence_score ==
            confidence_score_of(v.source_count,
                                v.club_conflict + v.position_conflict
                                + v.bye_conflict + projection_conflict,
                                v.data_notes)
        proven_scorer == proven_scorer_of(v.avg_score_2025, v.games25)
        ladder == category_ladder(proj_score, v.pdf_insight.season_out,
                                  v.relative_value, proven_scorer, v.age,
                                  v.games25, adp_value_gap,
                                  upside_note_of(v.data_notes, v.pdf_insight.note))
    IN  [name |-> v.name, pos |-> v.pos, club |-> v.club,
         proj_score |-> proj_score,
         bye |-> v.bye, age |-> v.age, games25 |-> v.games25,
         category |-> first_pass_override(ladder, v.manual_override.category,
                                          v.pdf_insight.season_out, proven_scorer),
         adp |-> v.adp, avg_2025_blend |-> v.avg_score_2025,
         market_rank |-> v.market_rank,
         expert_consensus_rank |-> expert_consensus_rank,
         expert_rank_count |-> Cardinality(DOMAIN v.pos_rank_map),
         expert_percentile |->
             expert_percentile_of(expert_consensus_rank, v.pos_pool_size),
         data_relative_value |-> v.relative_value,
         data_notes |-> v.data_notes, pdf_notes |-> v.pdf_insight.note,
         pdf_season_out |-> v.pdf_insight.season_out,
         projection_spread |-> proj_spread,
         adp_value_gap |-> adp_value_gap,
         data_confidence |-> confidence_label_of(confidence_score),
         data_confidence_score |-> confidence_score,
         source_count |-> v.source_count,
         club_conflict |-> v.club_conflict,
         position_conflict |-> v.position_conflict,
         projection_conflict |-> projection_conflict,
         bye_conflict |-> v.bye_conflict,
         rankings_vorp |-> v.rankings_vorp,
         ultimate_price |-> v.ultimate_price,
         best_pos |-> << >>, vorp_proxy |-> None, draft_score |-> None]

\* one iteration of the loop of step 5 for a record whose name is not empty
build_row(rec, sheet_sizes, pdf_sources) ==
    output_row(row_inputs(rec, Slot(rec.rankings, NoRankingsRow),
                          Slot(rec.ultimate, NoUltimateRow),
                          Slot(rec.data, NoDataRow), sheet_sizes, pdf_sources))

\* step 5: a row for every record of the registry whose name is not empty
build_rows(records, sheet_sizes, pdf_sources) ==
    LET named == SelectSeq(records, LAMBDA rec : Strip(rec.name) # << >>)
    IN  [i \in 1..Len(named) |-> build_row(named[i], sheet_sizes, pdf_sources)]

\* what a call left when it raised: the name of the exception
raise_of(result) == IF Raised(result) THEN Some(result[2]) ELSE None

\* line 1109, in the loop of step 5: safe_int of the Price cell of the
\* ultimate row of a record
price_of(rec) == safe_int(Slot(rec.ultimate, NoUltimateRow).Price)

\* the exception the loop of step 5 ends with, if any: that of the first
\* record with a name for which a call of the loop body raises
build_exception(records) ==
    LET named == SelectSeq(records, LAMBDA rec : Strip(rec.name) # << >>)
    IN  FirstSuch([i \in 1..Len(named) |-> raise_of(price_of(named[i]))], None, None)

\* step 5b, for one row
\* the override pass without the test of the season-ending flag
override_row_unguarded(row, override) ==
    IF Strip(row.name) = << >> \/ override = NoOverride THEN row
    ELSE [row EXCEPT !.category = override.category]

override_row(row, override) ==
    IF Strip(row.name) = << >> \/ override = NoOverride THEN row
    ELSE IF override.category \in {"premium", "value", "rookie", "depth"}
         THEN [row EXCEPT !.category = override.category]
    ELSE IF override.category = "smoky" /\ row.pdf_season_out # 1
         THEN [row EXCEPT !.category = "smoky"]
    ELSE row

final_override(row) == override_row(row, manual_override_of(Strip(row.name)))

---------------------------------------------------------------------------
(* Replacement levels, draft scores and the final order (step 6).          *)

ROSTER_SLOTS == (TDEF :> 42) @@ (TMID :> 36) @@ (TRUC :> 12) @@ (TFWD :> 42)

\* list.sort(key=proj_score, reverse=True), on the scores themselves
RECURSIVE InsertDesc(_, _)
InsertDesc(sorted, v) ==
    IF sorted = << >> THEN <<v>>
    ELSE IF Head(sorted) >= v THEN <<Head(sorted)>> \o InsertDesc(Tail(sorted), v)
    ELSE <<v>> \o sorted

RECURSIVE SortDesc(_)
SortDesc(values) ==
    IF values = << >> THEN << >>
    ELSE InsertDesc(SortDesc(SubSeq(values, 1, Len(values) - 1)),
                    values[Len(values)])

\* the projected scores of the rows eligible at pos, in row order
eligible_scores(rows, pos) ==
    LET eligible == SelectSeq(rows, LAMBDA r : ~IsNone(r.proj_score)
                                               /\ pos \in position_set(r.pos))
    IN  [i \in 1..Len(eligible) |-> Val(eligible[i].proj_score)]

\* the lowest eligible score, whatever the number of slots
replacement_lowest(rows, pos) ==
    LET eligible == SortDesc(eligible_scores(rows, pos))
    IN  IF eligible = << >> THEN 0 ELSE eligible[Len(eligible)]

\* lines 1175-1183, for one position
replacement_of(rows, pos) ==
    LET eligible == SortDesc(eligible_scores(rows, pos))
    IN  IF eligible = << >> THEN 0
        ELSE eligible[Min2(Len(eligible), ROSTER_SLOTS[pos])]

replacement_levels(rows) ==
    [pos \in Range(POS_ORDER) |-> replacement_of(rows, pos)]

\* the loop of lines 1200-1206: <<best_pos, best_vorp>>, the first maximum
RECURSIVE best_position(_, _, _, _)
best_position(pos_candidates, proj, repl, best) ==
    IF pos_candidates = << >> THEN best
    ELSE LET vorp == proj - repl[Head(pos_candidates)]
         IN  IF IsNone(best[2]) \/ vorp > Val(best[2])
             THEN best_position(Tail(pos_candidates), proj, repl,
                                <<Head(pos_candidates), Some(vorp)>>)
             ELSE best_position(Tail(pos_candidates), proj, repl, best)

\* the draft score with the vorp taken off instead of added
draft_score_inverted(proj, best_vorp, rel, adp_gap, expert_percentile, confidence_score) ==
    72 * proj - 135 * Max2(best_vorp, 0) + 35 * rel + 8 * adp_gap
    + 10 * expert_percentile + 40 * confidence_score

\* 0.72 proj + 1.35 max(vorp, 0) + 0.35 rel + 0.08 adp_gap
\*   + 10 expert_percentile + 4 confidence, in thousandths
draft_score_milli(proj, best_vorp, rel, adp_gap, expert_percentile, confidence_score) ==
    72 * proj + 135 * Max2(best_vorp, 0) + 35 * rel + 8 * adp_gap
    + 10 * expert_percentile + 40 * confidence_score

\* the scoring that leaves no draft score empty: 0.0 for every player,
\* the players without projected score included
score_row_zero_filled(row, repl) ==
    [row EXCEPT !.best_pos = << >>, !.vorp_proxy = None,
                !.draft_score = Some(0)]

\* lines 1185-1226, for one row.  round(draft_score, 2) is taken on the
\* exact decimal value, half to even; where the thousandths end in 5 the
\* float sum of the code may fall on either side of the half and the row
\* may differ from the model by 0.01.  The rows of Spec, SpecOrder and
\* SpecDraft have no such tie, and no property of SpecScore reads the
\* draft score.
score_row(row, repl) ==
    LET pos_candidates == SelectSeq(POS_ORDER,
                                    LAMBDA p : p \in position_set(row.pos))
    IN  IF IsNone(row.proj_score) \/ pos_candidates = << >>
        THEN [row EXCEPT !.best_pos = << >>, !.vorp_proxy = None,
                         !.draft_score = None]
        ELSE LET proj == Val(row.proj_score)
                 best == best_position(pos_candidates, proj, repl,
                                       <<pos_candidates[1], None>>)
                 rel == clamp(Val(OrElse(row.data_relative_value, Some(0))),
                              0, 350)
                 adp_gap == clamp(Val(OrElse(row.adp_value_gap, Some(0))),
                                  0, 350)
             IN  [row EXCEPT
                    !.best_pos = best[1],
                    !.vorp_proxy = best[2],
                    !.draft_score =
                        Some(RoundDiv(draft_score_milli(
                                          proj, Val(best[2]), rel, adp_gap,
                                          row.expert_percentile,
                                          row.data_confidence_score),
                                      10))]

\* The characters in code-point order, for the comparison of names.
CODE_POINTS ==
    <<" ","'","-",".","/","0","1","2","3","4","5","6","7","8","9",":",
      "A","B","C","D","E","F","G","H","I","J","K","L","M",
      "N","O","P","Q","R","S","T","U","V","W","X","Y","Z",
      "a","b","c","d","e","f","g","h","i","j","k","l","m",
      "n","o","p","q","r","s","t","u","v","w","x","y","z">>

Ord(c) == CHOOSE i \in 1..Len(CODE_POINTS) : CODE_POINTS[i] = c

\* a < b on str
RECURSIVE StrLess(_, _)
StrLess(a, b) ==
    IF b = << >> THEN FALSE
    ELSE IF a = << >> THEN TRUE
    ELSE IF Head(a) # Head(b) THEN Ord(Head(a)) < Ord(Head(b))
    ELSE StrLess(Tail(a), Tail(b))

\* x or -9999, for a score in the given number of units per point; the
\* 0 of a score is falsy like None
or_sentinel(x, units) ==
    IF IsNone(x) \/ Val(x) = 0 THEN 0 - 9999 * units ELSE Val(x)

\* the sort key of lines 1230-1235
sort_key(r) ==
    <<IF IsNone(r.draft_score) THEN 1 ELSE 0,
      0 - or_sentinel(r.draft_score, 100),
      0 - or_sentinel(r.proj_score, 10),
      r.name>>

\* k1 < k2 on the key tuples
key_less(k1, k2) ==
    \/ k1[1] < k2[1]
    \/ k1[1] = k2[1] /\ k1[2] < k2[2]
    \/ k1[1] = k2[1] /\ k1[2] = k2[2] /\ k1[3] < k2[3]
    \/ k1[1] = k2[1] /\ k1[2] = k2[2] /\ k1[3] = k2[3] /\ StrLess(k1[4], k2[4])

\* sorted(): stable, so a row goes behind the rows that are not greater
RECURSIVE InsertRow(_, _)
InsertRow(sorted, r) ==
    IF sorted = << >> THEN <<r>>
    ELSE IF key_less(sort_key(r), sort_key(Head(sorted)))
         THEN <<r>> \o sorted
         ELSE <<Head(sorted)>> \o InsertRow(Tail(sorted), r)

RECURSIVE sorted_rows(_)
sorted_rows(rows) ==
    IF rows = << >> THEN << >>
    ELSE InsertRow(sorted_rows(SubSeq(rows, 1, Len(rows) - 1)), rows[Len(rows)])

\* the filter that reads the projected score and the bye by truth value
app_rows_truthy(rows) ==
    SelectSeq(rows, LAMBDA r : /\ r.name # << >> /\ r.pos # << >>
                               /\ r.club # << >>
                               /\ ~IsNone(r.proj_score)
                               /\ Val(r.proj_score) # 0
                               /\ ~IsNone(r.bye))

\* line 1239
app_rows_of(rows) ==
    SelectSeq(rows, LAMBDA r : /\ r.name # << >> /\ r.pos # << >>
                               /\ r.club # << >>
                               /\ ~IsNone(r.proj_score) /\ ~IsNone(r.bye))

---------------------------------------------------------------------------
(* The run of main as a state machine: the check of the required input    *)
(* files, the loads, build_datasets step by step, and the three writes.   *)

VARIABLES
    input_exists,        \* required input file -> whether its path exists
    main_pc,             \* the step of main that runs next
    loaded,              \* the sources main has loaded, in load order
    written,             \* the output files main has written, in order
    error,               \* if main raised: the missing file, or the exception
    ultimate_rows,       \* the rows load_ultimate_xlsx returned
    rankings_rows,       \* the rows load_rankings_csv returned
    data_rows,           \* the rows load_data_csv returned
    expert_rows,         \* the entries load_expert_xlsx returned
    expert_sheet_sizes,  \* position -> number of ranked rows of its sheet
    pdf_sources,         \* the documents: (source_id, pages) each
    order,               \* the order in which the four sources are folded
    pc,                  \* the step of build_datasets that runs next
    phase,               \* while folding: the index in order of the source
    idx,                 \* while folding: the index of the next row
    records,             \* the registry, in insertion order
    mapping_stats,
    output_rows,
    replacement,
    full_rows,
    app_rows

inputs == <<ultimate_rows, rankings_rows, data_rows, expert_rows,
            expert_sheet_sizes, pdf_sources, order, input_exists>>

\* what main itself keeps track of, around build_datasets
main_state == <<main_pc, loaded, written, error>>

\* what build_datasets computes
build_state == <<pc, phase, idx, records, mapping_stats, output_rows,
                 replacement, full_rows, app_rows>>

vars == <<ultimate_rows, rankings_rows, data_rows, expert_rows,
          expert_sheet_sizes, pdf_sources, order, input_exists, main_pc,
          loaded, written, error, pc, phase, idx, records,
          mapping_stats, output_rows, replacement, full_rows, app_rows>>

\* line 1584: the files main requires, in the order it checks them
REQUIRED_INPUTS == <<"rankings_csv", "ultimate_xlsx", "expert_xlsx", "data_csv">>

\* lines 1590-1594: the sources main loads, in this order
LOAD_ORDER == <<"rankings", "ultimate", "experts", "data", "pdf">>

\* lines 1606-1608: the files main writes, in this order
WRITE_ORDER == <<"full_out", "app_out", "xlsx_out">>

ALL_EXIST == [f \in Range(REQUIRED_INPUTS) |-> TRUE]

\* lines 1584-1586 with a loop that looks at the first file only
first_missing_rankings_only(exists) ==
    IF exists[REQUIRED_INPUTS[1]] THEN None ELSE Some(REQUIRED_INPUTS[1])

\* lines 1584-1586: the first required file, in the order of the loop,
\* whose path does not exist; None when all four exist
first_missing(exists) ==
    FirstSuch([i \in 1..Len(REQUIRED_INPUTS) |-> IF exists[REQUIRED_INPUTS[i]] THEN None ELSE Some(REQUIRED_INPUTS[i])], None, None)

\* build_datasets folds ultimate, rankings, data, experts, in this order.
CODE_ORDER == <<"ultimate", "rankings", "data", "experts">>

rows_of(source) ==
    CASE source = "ultimate" -> ultimate_rows
      [] source = "rankings" -> rankings_rows
      [] source = "data" -> data_rows
      [] source = "experts" -> expert_rows

\* the position of the next row to fold from <<p, i>> on: <<p, i>> itself
\* when source p has a row i, else the first row of the next source that
\* has rows; <<5, 1>> when every loop has ended
RECURSIVE seek(_, _)
seek(p, i) ==
    IF p > Len(order) THEN <<p, 1>>
    ELSE IF i <= Len(rows_of(order[p])) THEN <<p, i>>
    ELSE seek(p + 1, 1)

\* the state main starts in: u, r, d, e and documents are what the input
\* files hold, exists tells which of the required files are there
main_start(u, r, d, e, sizes, documents, ord, exists) ==
    /\ input_exists = exists
    /\ main_pc = "check"
    /\ loaded = << >>
    /\ written = << >>
    /\ error = None
    /\ ultimate_rows = u
    /\ rankings_rows = r
    /\ data_rows = d
    /\ expert_rows = e
    /\ expert_sheet_sizes = sizes
    /\ pdf_sources = documents
    /\ order = ord
    /\ pc = "fold"
    /\ phase = 1
    /\ idx = 1
    /\ records = << >>
    /\ mapping_stats = [manual_alias_hits |-> 0, fuzzy_matches |-> 0]
    /\ output_rows = << >>
    /\ replacement = << >>
    /\ full_rows = << >>
    /\ app_rows = << >>

\* a run over input files that are all there
Start(u, r, d, e, sizes, documents, ord) ==
    main_start(u, r, d, e, sizes, documents, ord, ALL_EXIST)

\* lines 1584-1586: the loop over the required files raises for the first
\* one that does not exist
CheckInputs ==
    /\ main_pc = "check"
    /\ error' = first_missing(input_exists)
    /\ main_pc' = IF IsNone(first_missing(input_exists)) THEN "load" ELSE "raised"
    /\ UNCHANGED <<inputs, build_state, loaded, written>>

\* lines 1590-1594: one of the five loads, in the order of the code
LoadSource ==
    /\ main_pc = "load"
    /\ loaded' = Append(loaded, LOAD_ORDER[Len(loaded) + 1])
    /\ main_pc' = IF Len(loaded) + 1 = Len(LOAD_ORDER) THEN "build" ELSE "load"
    /\ UNCHANGED <<inputs, build_state, written, error>>

\* lines 1606-1608: one of the three writes, once build_datasets returned
WriteOutput ==
    /\ main_pc = "build"
    /\ pc = "done"
    /\ written' = Append(written, WRITE_ORDER[Len(written) + 1])
    /\ main_pc' = IF Len(written) + 1 = Len(WRITE_ORDER) THEN "end" ELSE "build"
    /\ UNCHANGED <<inputs, build_state, loaded, error>>

SetRegistry(st) ==
    /\ records' = st.records
    /\ mapping_stats' = st.mapping_stats

\* The row the next Fold step folds.
cursor == seek(phase, idx)

folding == main_pc = "build" /\ pc = "fold" /\ cursor[1] <= Len(order)

incoming_source == order[cursor[1]]

incoming_row == rows_of(incoming_source)[cursor[2]]

registry == [records |-> records, mapping_stats |-> mapping_stats]

\* One iteration of the loop over the rows of a source: the row at the
\* cursor is folded (st is the registry after the loop body) and the
\* cursor moves behind it.
Fold(source, st) ==
    /\ main_pc = "build"
    /\ cursor[1] <= Len(order)
    /\ incoming_source = source
    /\ SetRegistry(st)
    /\ phase' = cursor[1]
    /\ idx' = cursor[2] + 1
    /\ UNCHANGED <<inputs, main_state, pc, output_rows, replacement, full_rows, app_rows>>

FoldUltimate ==
    /\ pc = "fold"
    /\ Fold("ultimate", fold_ultimate(registry, incoming_row))

FoldRankings ==
    /\ pc = "fold"
    /\ Fold("rankings", fold_rankings(registry, incoming_row))

FoldData ==
    /\ pc = "fold"
    /\ Fold("data", fold_data(registry, incoming_row))

FoldExperts ==
    /\ pc = "fold"
    /\ Fold("experts", fold_experts(registry, incoming_row))

\* step 5, once the four loops have ended
BuildOutputRows ==
    /\ main_pc = "build"
    /\ pc = "fold"
    /\ seek(phase, idx)[1] > Len(order)
    /\ IF IsNone(build_exception(records))
       THEN /\ output_rows' = build_rows(records, expert_sheet_sizes, pdf_sources)
            /\ pc' = "override"
            /\ UNCHANGED main_state
       ELSE /\ main_pc' = "raised"
            /\ error' = build_exception(records)
            /\ UNCHANGED <<output_rows, pc, loaded, written>>
    /\ UNCHANGED <<inputs, phase, idx, records, mapping_stats,
                   replacement, full_rows, app_rows>>

\* step 5b
ApplyOverrides ==
    /\ pc = "override"
    /\ output_rows' = [i \in 1..Len(output_rows) |-> final_override(output_rows[i])]
    /\ pc' = "replacement"
    /\ UNCHANGED <<inputs, main_state, phase, idx, records, mapping_stats,
                   replacement, full_rows, app_rows>>

\* step 6, the replacement levels
ComputeReplacement ==
    /\ pc = "replacement"
    /\ replacement' = replacement_levels(output_rows)
    /\ pc' = "score"
    /\ UNCHANGED <<inputs, main_state, phase, idx, records, mapping_stats,
                   output_rows, full_rows, app_rows>>

\* step 6, best_pos, vorp_proxy and draft_score of every row
ScoreRows ==
    /\ pc = "score"
    /\ output_rows' = [i \in 1..Len(output_rows) |->
                          score_row(output_rows[i], replacement)]
    /\ pc' = "sort"
    /\ UNCHANGED <<inputs, main_state, phase, idx, records, mapping_stats,
                   replacement, full_rows, app_rows>>

\* full_rows and app_rows, and the return
SortRows ==
    /\ pc = "sort"
    /\ full_rows' = sorted_rows(output_rows)
    /\ app_rows' = app_rows_of(sorted_rows(output_rows))
    /\ pc' = "done"
    /\ UNCHANGED <<inputs, main_state, phase, idx, records, mapping_stats,
                   output_rows, replacement>>

Next ==
    \/ CheckInputs
    \/ LoadSource
    \/ FoldUltimate
    \/ FoldRankings
    \/ FoldData
    \/ FoldExperts
    \/ BuildOutputRows
    \/ ApplyOverrides
    \/ ComputeReplacement
    \/ ScoreRows
    \/ SortRows
    \/ WriteOutput

---------------------------------------------------------------------------
(* Runs of build_datasets in the order of the code, as pure functions of   *)
(* the arguments: the four loops of steps 1 to 4 one after the other.      *)

RECURSIVE fold_rows(_, _, _, _)
fold_rows(st, source, rows, i) ==
    IF i > Len(rows) THEN st
    ELSE fold_rows(fold_row(st, source, rows[i]), source, rows, i + 1)

RECURSIVE fold_sources(_, _, _)
fold_sources(st, ord, k) ==
    IF k > Len(ord) THEN st
    ELSE fold_sources(fold_rows(st, ord[k], rows_of(ord[k]), 1), ord, k + 1)

\* the registry after the loops have run in the order ord
registry_in(ord) ==
    fold_sources([records |-> << >>,
                  mapping_stats |-> [manual_alias_hits |-> 0, fuzzy_matches |-> 0]],
                 ord, 1)

\* What the loop of the row at the cursor hands to match_existing_key.
incoming_name ==
    CASE incoming_source = "rankings" -> Strip(incoming_row.Name)
      [] incoming_source = "experts" -> incoming_row.player
      [] OTHER -> Strip(incoming_row.Player)

incoming_club ==
    CASE incoming_source = "rankings" -> incoming_row.Team
      [] incoming_source = "data" -> StripUpper(incoming_row.Club)
      [] OTHER -> << >>

incoming_threshold ==
    CASE incoming_source = "rankings" -> THRESHOLD_RANKINGS
      [] incoming_source = "data" -> THRESHOLD_DATA
      [] OTHER -> THRESHOLD_EXPERTS

---------------------------------------------------------------------------
(* The arguments of the runs that are checked.                             *)

\* Names.  "Max Hall" has a smoky entry in MANUAL_PLAYER_OVERRIDES and
\* "Sam Grlj" a rookie entry; "Zac Reid" is a key of MANUAL_ALIASES.  To the
\* record of "Max Hall", "Max Hal" has similarity 0.914, "Mac Hall" 0.874
\* and "Sam Hall" 0.748.
MaxHall == <<"M","a","x"," ","H","a","l","l">>

MaxHal == <<"M","a","x"," ","H","a","l">>

MacHall == <<"M","a","c"," ","H","a","l","l">>

SamHall == <<"S","a","m"," ","H","a","l","l">>

SamGrlj == <<"S","a","m"," ","G","r","l","j">>

ZacReid == <<"Z","a","c"," ","R","e","i","d">>

ZachReid == <<"Z","a","c","h"," ","R","e","i","d">>

GWS == <<"G","W","S">>

GwsRaw == <<"g","w","s"," ">>

GEEL == <<"G","E","E","L">>

MidFwd == <<"M","I","D","/","F","W","D">>

FwdMid == <<"F","W","D","/","M","I","D">>

RucFwd == <<"R","U","C","/","F","W","D">>

Bump == <<"b","u","m","p">>

Sore == <<"s","o","r","e">>

UltimateRow(player, club, position, avg) ==
    [NoUltimateRow EXCEPT !.Player = player, !.Club = club,
                          !.Position = position, !.AVG = avg]

RankingsRow(name, team, position, projected) ==
    [NoRankingsRow EXCEPT !.Name = name, !.Team = team,
                          !.Position = position, !.Projected = projected]

DataRow(player, club, position, projected) ==
    [NoDataRow EXCEPT !.Player = player, !.Club = club,
                      !.Position = position, !.Projected = projected]

ExpertRow(player, pos, analyst, rank) ==
    [player |-> player, pos |-> pos, analyst |-> analyst, rank |-> rank]

\* the sequences of length n over S
RECURSIVE Tuples(_, _)
Tuples(S, n) ==
    IF n = 0 THEN {<< >>}
    ELSE {Append(s, x) : s \in Tuples(S, n - 1), x \in S}

SHEET_SIZES == (TDEF :> 5) @@ (TMID :> 5) @@ (TRUC :> 5) @@ (TFWD :> 5)

\* Resolution runs hold at most MaxRows rows over the four sources.
MaxRows == 3

RESOLVE_ULTIMATE ==
    {UltimateRow(n, c, TMID, Some(900)) : n \in {MaxHall, ZachReid}, c \in {<< >>, GWS}}

RESOLVE_RANKINGS ==
    {RankingsRow(n, c, FwdMid, Some(900)) : n \in {MaxHal, MacHall, ZacReid},
                                            c \in {GwsRaw, GEEL}}
    \cup {RankingsRow(MacHall, << >>, << >>, None)}

RESOLVE_DATA ==
    {DataRow(n, c, TMID, Some(900)) : n \in {MacHall, SamHall}, c \in {<< >>, GWS, GEEL}}

RESOLVE_EXPERTS ==
    {ExpertRow(n, TMID, "A1", k) : n \in {MacHall, MaxHall, SamHall}, k \in {1, 2}}

Init ==
    \E nu \in 0..MaxRows :
      \E nr \in 0..(MaxRows - nu) :
        \E nd \in 0..(MaxRows - nu - nr) :
          \E ne \in 0..(MaxRows - nu - nr - nd) :
            \E u \in Tuples(RESOLVE_ULTIMATE, nu), r \in Tuples(RESOLVE_RANKINGS, nr),
               d \in Tuples(RESOLVE_DATA, nd), e \in Tuples(RESOLVE_EXPERTS, ne) :
                Start(u, r, d, e, SHEET_SIZES, << >>, CODE_ORDER)

Spec == Init /\ [][Next]_vars

---------------------------------------------------------------------------
(* C1.                                                                     *)

C1_Applies ==
    /\ folding
    /\ incoming_source # "ultimate"
    /\ incoming_name # << >>
    /\ ~HasKey(records, canonical_key(incoming_name))

\* the step adds one record, under the row's own key, and leaves the
\* records that were there as they were
C1_CreatesRecord ==
    /\ Len(records') = Len(records) + 1
    /\ SubSeq(records', 1, Len(records)) = records
    /\ records'[Len(records')].key = canonical_key(incoming_name)

C1_NameBelow(rec) ==
    LET s == name_similarity(incoming_name, rec)
    IN  s[1] < incoming_threshold * s[2]

\* the similarity with 0.05 added when the hint is the stored club and 0.08
\* taken off when both are there and differ
C1_AdjustedBelow(rec) ==
    LET s == name_similarity(incoming_name, rec)
        both == incoming_club # << >> /\ StripUpper(rec.club) # << >>
        same == StripUpper(incoming_club) = StripUpper(rec.club)
        adjustment == IF both THEN (IF same THEN 5 ELSE -8) ELSE 0
    IN  s[1] + adjustment * s[2] < incoming_threshold * s[2]

\* C1 as stated: a row whose key is absent and whose weighted name
\* similarity to every record is below the threshold of its source makes
\* a new record and merges into none, whatever the club hint and the
\* stored clubs.
C1_AsStated ==
    [][(C1_Applies /\ \A i \in 1..Len(records) : C1_NameBelow(records[i]))
         => C1_CreatesRecord]_vars

\* C1: a row whose key is absent and whose club-adjusted score against
\* every record is below the threshold of its source makes a new record
\* and merges into none.
C1_NoFalseMerge ==
    [][(C1_Applies /\ \A i \in 1..Len(records) : C1_AdjustedBelow(records[i]))
         => C1_CreatesRecord]_vars

\* "Mac Hall" came after "Max Hall" and has a record of its own
C1_Witness ==
    \E i, j \in 1..Len(records) :
        /\ i < j
        /\ records[i].key = canonical_key(MaxHall)
        /\ records[j].key = canonical_key(MacHall)

---------------------------------------------------------------------------
(* C2: the loops of steps 1 to 4 in any order.                             *)

\* Ordering runs hold at most MaxOrderRows rows over the four sources.
MaxOrderRows == 3

ORDER_ULTIMATE ==
    { [UltimateRow(MaxHall, GWS, TMID, Some(900)) EXCEPT !.BYES_Mid = Some(12)],
      UltimateRow(MaxHall, << >>, << >>, None),
      UltimateRow(ZachReid, GWS, TRUC, Some(900)) }

ORDER_RANKINGS ==
    { [RankingsRow(MaxHall, GEEL, FwdMid, Some(1000)) EXCEPT !.Bye = Some(13)],
      RankingsRow(MaxHall, << >>, << >>, None),
      RankingsRow(MaxHal, GwsRaw, TMID, Some(900)),
      RankingsRow(ZacReid, GEEL, TRUC, Some(900)) }

ORDER_DATA ==
    { DataRow(MaxHall, GEEL, MidFwd, Some(900)),
      DataRow(MaxHall, << >>, << >>, None),
      DataRow(MacHall, GWS, TMID, Some(900)) }

ORDER_EXPERTS ==
    { ExpertRow(MaxHall, TFWD, "A1", 1),
      ExpertRow(MaxHal, TMID, "A1", 2),
      ExpertRow(ZachReid, TRUC, "A1", 1) }

\* two rows of one player in rankings and two in data
ORDER_TWICE_RANKINGS ==
    { RankingsRow(MaxHall, GEEL, TFWD, Some(900)),
      RankingsRow(MaxHall, << >>, << >>, Some(900)) }

ORDER_TWICE_DATA ==
    { DataRow(MaxHall, GWS, TDEF, Some(900)),
      DataRow(MaxHall, << >>, << >>, Some(900)) }

\* the orders of the four loops: those of the loops that have rows, the
\* loops without rows (which do nothing) behind them in the order of the code
loops_with_rows(u, r, d, e) ==
    SelectSeq(CODE_ORDER,
              LAMBDA s : (CASE s = "ultimate" -> u
                            [] s = "rankings" -> r
                            [] s = "data" -> d
                            [] s = "experts" -> e) # << >>)

orders_of(u, r, d, e) ==
    LET busy == loops_with_rows(u, r, d, e)
        idle == SelectSeq(CODE_ORDER, LAMBDA s : s \notin Range(busy))
    IN  {[i \in 1..Len(busy) |-> busy[f[i]]] \o idle :
            f \in Permutations(1..Len(busy))}

InitOrder ==
    \/ \E nu \in 0..MaxOrderRows :
         \E nr \in 0..(MaxOrderRows - nu) :
           \E nd \in 0..(MaxOrderRows - nu - nr) :
             \E ne \in 0..(MaxOrderRows - nu - nr - nd) :
               \E u \in Tuples(ORDER_ULTIMATE, nu), r \in Tuples(ORDER_RANKINGS, nr),
                  d \in Tuples(ORDER_DATA, nd), e \in Tuples(ORDER_EXPERTS, ne) :
                 \E ord \in orders_of(u, r, d, e) :
                    Start(u, r, d, e, SHEET_SIZES, << >>, ord)
    \/ \E r \in Tuples(ORDER_TWICE_RANKINGS, 2), d \in Tuples(ORDER_TWICE_DATA, 2) :
         \E ord \in orders_of(<< >>, r, d, << >>) :
            Start(<< >>, r, d, << >>, SHEET_SIZES, << >>, ord)

SpecOrder == InitOrder /\ [][Next]_vars

\* what the rows say about who a player is: the club, the position and the
\* four conflict flags, by the canonical key of the name
identity_of(rows) ==
    {<<canonical_key(rows[i].name), rows[i].club, rows[i].pos,
       rows[i].club_conflict, rows[i].position_conflict,
       rows[i].projection_conflict, rows[i].bye_conflict>> : i \in 1..Len(rows)}

\* the rows of the run that folds the same arguments in the order of the code
code_order_rows ==
    build_rows(registry_in(CODE_ORDER).records, expert_sheet_sizes, pdf_sources)

row_keys(source) ==
    LET rows == rows_of(source)
    IN  [i \in 1..Len(rows) |->
            canonical_key(CASE source = "rankings" -> Strip(rows[i].Name)
                            [] source = "experts" -> rows[i].player
                            [] OTHER -> Strip(rows[i].Player))]

\* no source names a player in two rows (an analyst may rank a player on
\* several sheets: the rows of the experts count by player and position)
C2_OneRowEach ==
    /\ \A s \in {"ultimate", "rankings", "data"} :
          \A i, j \in 1..Len(row_keys(s)) :
              i # j => row_keys(s)[i] # row_keys(s)[j]

C2_NoFuzzy ==
    /\ mapping_stats.fuzzy_matches = 0
    /\ registry_in(CODE_ORDER).mapping_stats.fuzzy_matches = 0

\* C2 as stated: folding the four sources in any order gives every player
\* the club, the position and the conflict flags of the order of the code.
C2_AsStated ==
    pc = "done" => identity_of(full_rows) = identity_of(code_order_rows)

\* C2: when every row is stored under its own canonical key in both orders
\* (no fuzzy match) and no source has two rows of one player, folding the
\* sources in any order gives every player the club, the position and the
\* conflict flags of the order of the code.
C2_OrderIndependent ==
    (pc = "done" /\ C2_NoFuzzy /\ C2_OneRowEach)
        => identity_of(full_rows) = identity_of(code_order_rows)

\* another order than the code's, and a player whose sources disagree
C2_Witness ==
    /\ pc = "done"
    /\ order # CODE_ORDER
    /\ C2_NoFuzzy /\ C2_OneRowEach
    /\ \E i \in 1..Len(full_rows) :
          /\ full_rows[i].club_conflict = 1
          /\ full_rows[i].position_conflict = 1
          /\ full_rows[i].source_count >= 3

---------------------------------------------------------------------------
(* Runs about one player: the category and the confidence of his row.      *)

\* One document of one page about a player: out for the season, a note
\* only, a note that tells of an upside.
DOCTORS == <<"d","d">>

pdf_out(name) == <<<<DOCTORS, <<name \o <<" ","i","s"," ","o","u","t"," ","f","o","r"," ","s","e","a","s","o","n",".">>>>>>>>

pdf_note(name) == <<<<DOCTORS, <<name \o <<" ","i","s"," ","s","o","r","e"," ","o","n"," ","a"," ","w","i","n","g",".">>>>>>>>

pdf_upside(name) == <<<<DOCTORS, <<name \o <<" ","r","o","l","e"," ","b","u","m","p",".">>>>>>>>

\* The values on both sides of every threshold of the ladder.
LADDER_PROJECTED == {None, Some(969), Some(970), Some(1019), Some(1020)}

LADDER_AVG == {Some(949), Some(950)}

LADDER_GAMES == {None, Some(8), Some(9), Some(13), Some(14)}

LADDER_AGE == {None, Some(21), Some(22)}

LADDER_ADP == {None, Some(139), Some(140), Some(179), Some(180)}

LADDER_VALUE ==
    {None, Some(99), Some(100), Some(159), Some(160), Some(239), Some(240)}

LadderUltimate(name, games, age) ==
    [UltimateRow(name, GWS, TMID, None) EXCEPT !.GMS = games, !.Age = age]

LadderRankings(name, projected, avg, adp) ==
    [RankingsRow(name, GWS, TMID, projected) EXCEPT
        !.Rank = Some(10), !.ADP = adp, !.Avg2025 = avg]

LadderData(name, value, notes) ==
    [DataRow(name, GWS, TMID, None) EXCEPT !.RelativeValue = value, !.Notes = notes]

\* a player without an entry in MANUAL_PLAYER_OVERRIDES and without a
\* mention in the documents: every input of the ladder varies
InitLadder ==
    \E games \in LADDER_GAMES, age \in LADDER_AGE, projected \in LADDER_PROJECTED,
       avg \in LADDER_AVG, adp \in LADDER_ADP, value \in LADDER_VALUE,
       notes \in {<< >>, Bump} :
        Start(<<LadderUltimate(SamHall, games, age)>>,
              <<LadderRankings(SamHall, projected, avg, adp)>>,
              <<LadderData(SamHall, value, notes)>>,
              << >>, SHEET_SIZES, << >>, CODE_ORDER)

\* players with and without an entry in MANUAL_PLAYER_OVERRIDES, with and
\* without a mention in the documents
InitOverride ==
    \E name \in {SamHall, MaxHall, SamGrlj},
       games \in {Some(8), Some(14)}, projected \in {None, Some(969), Some(1020)},
       avg \in LADDER_AVG, value \in {None, Some(160), Some(240)},
       adp \in {None, Some(180)} :
      \E documents \in {<< >>, pdf_out(name), pdf_upside(name)} :
        Start(<<LadderUltimate(name, games, Some(21))>>,
              <<LadderRankings(name, projected, avg, adp)>>,
              <<LadderData(name, value, << >>)>>,
              << >>, SHEET_SIZES, documents, CODE_ORDER)

\* a player in any of the sources, with and without disagreement between
\* them, with and without notes
CONFIDENCE_RANKINGS(name) ==
    {[RankingsRow(name, team, position, projected) EXCEPT !.Bye = bye] :
        team \in {GWS, GEEL}, position \in {TMID, TFWD},
        projected \in {Some(1050), Some(950)}, bye \in {Some(12), Some(13)}}

CONFIDENCE_ULTIMATE(name) ==
    {[UltimateRow(name, GWS, TMID, avg) EXCEPT !.BYES_Mid = Some(12)] :
        avg \in {None, Some(1050)}}

CONFIDENCE_DATA(name) ==
    {[DataRow(name, GWS, TMID, Some(1050)) EXCEPT
         !.RelativeValue = Some(250), !.Notes = notes] : notes \in {<< >>, Sore}}

CONFIDENCE_EXPERTS(name) == {ExpertRow(name, TMID, "A1", 1)}

AtMostOne(S) == {<< >>} \cup {<<x>> : x \in S}

InitConfidence ==
    \E name \in {SamHall, SamGrlj} :
      \E u \in AtMostOne(CONFIDENCE_ULTIMATE(name)),
         r \in AtMostOne(CONFIDENCE_RANKINGS(name)),
         d \in AtMostOne(CONFIDENCE_DATA(name)),
         e \in AtMostOne(CONFIDENCE_EXPERTS(name)) :
        \E documents \in {<< >>, pdf_note(name), pdf_out(name)} :
          Start(u, r, d, e, SHEET_SIZES, documents, CODE_ORDER)

InitScore == InitLadder \/ InitOverride \/ InitConfidence

SpecScore == InitScore /\ [][Next]_vars

\* the override pass of step 5b is behind
overridden == pc \in {"replacement", "score", "sort", "done"}

AtLeast(x, n) == ~IsNone(x) /\ Val(x) >= n

AtMost(x, n) == ~IsNone(x) /\ Val(x) <= n

has_override(row) == manual_override_of(Strip(row.name)) # NoOverride

---------------------------------------------------------------------------
(* C3.                                                                     *)

proven(row) == AtLeast(row.avg_2025_blend, 950) /\ AtLeast(row.games25, 14)

upside(row) == upside_note_of(row.data_notes, row.pdf_notes)

\* the rules in the order they are documented in, each with its label
documented_rules(row) ==
    << <<IsNone(row.proj_score), "depth">>,
       <<row.pdf_season_out = 1, "depth">>,
       <<AtLeast(row.proj_score, 1020) \/ AtLeast(row.data_relative_value, 240),
         "premium">>,
       <<proven(row) /\ AtLeast(row.proj_score, 970), "premium">>,
       <<AtMost(row.age, 21) /\ AtMost(row.games25, 8), "rookie">>,
       <<~proven(row) /\ upside(row)
           /\ (AtLeast(row.data_relative_value, 160)
               \/ AtLeast(row.adp_value_gap, 80)),
         "smoky">>,
       <<proven(row) \/ AtLeast(row.data_relative_value, 100)
           \/ AtLeast(row.adp_value_gap, 40),
         "value">>,
       <<TRUE, "depth">> >>

\* the label of the first rule that applies
documented_category(row) ==
    LET rules == documented_rules(row)
        first == CHOOSE k \in 1..Len(rules) :
                     rules[k][1] /\ \A j \in 1..(k - 1) : ~rules[j][1]
    IN  rules[first][2]

\* C3: the category of every row that no manual override touches is the
\* label of the first documented rule that applies to it, one of the five
\* labels, whatever is absent among age, games, relative value and gap.
C3_LadderTotal ==
    \A i \in 1..Len(output_rows) :
        ~has_override(output_rows[i]) =>
            /\ output_rows[i].category = documented_category(output_rows[i])
            /\ output_rows[i].category
                   \in {"premium", "rookie", "smoky", "value", "depth"}

\* a rookie who also meets the smoky and the value rule, his age apart
\* nothing of him absent
C3_Witness ==
    \E i \in 1..Len(output_rows) :
        LET rules == documented_rules(output_rows[i])
        IN  /\ ~has_override(output_rows[i])
            /\ output_rows[i].category = "rookie"
            /\ rules[6][1] /\ rules[7][1]
            /\ IsNone(output_rows[i].adp_value_gap)

---------------------------------------------------------------------------
(* C4 and C5.                                                              *)

smoky_requested(row) == manual_override_of(Strip(row.name)).category = "smoky"

\* C4 as stated: after both override passes a manual smoky override has
\* left the category of the ladder to every proven scorer and to every
\* player the ladder classified premium.
C4_AsStated ==
    overridden =>
        \A i \in 1..Len(output_rows) :
            (/\ smoky_requested(output_rows[i])
             /\ \/ proven(output_rows[i])
                \/ documented_category(output_rows[i]) = "premium")
                => output_rows[i].category = documented_category(output_rows[i])

\* a premium of the ladder with a smoky override, after both passes
C4_Witness ==
    /\ overridden
    /\ \E i \in 1..Len(output_rows) :
          /\ smoky_requested(output_rows[i])
          /\ documented_category(output_rows[i]) = "premium"

\* C5: after both override passes no player flagged season-ending is
\* smoky, with a manual smoky override or without.
C5_SeasonOutNeverSmoky ==
    overridden =>
        \A i \in 1..Len(output_rows) :
            output_rows[i].pdf_season_out = 1 => output_rows[i].category # "smoky"

\* a player flagged season-ending who has a manual smoky override, after
\* both passes
C5_Witness ==
    /\ overridden
    /\ \E i \in 1..Len(output_rows) :
          /\ output_rows[i].pdf_season_out = 1
          /\ smoky_requested(output_rows[i])

---------------------------------------------------------------------------
(* C8, C9 and C10.                                                         *)

flags(row) ==
    row.club_conflict + row.position_conflict + row.bye_conflict
    + row.projection_conflict

\* 0.42 + 0.13 * source_count - 0.08 * flags, in hundredths
documented_base(row) == 42 + 13 * row.source_count - 8 * flags(row)

documented_clamp(x) == IF x < 10 THEN 10 ELSE IF x > 99 THEN 99 ELSE x

documented_label(score) ==
    IF score >= 80 THEN "high"
    ELSE IF score >= 62 /\ score < 80 THEN "medium"
    ELSE "low"

\* C8: the confidence score of every row is 0.42 + 0.13 * source_count
\* - 0.08 * (the four flags), plus 0.03 when the bonus is given (the
\* Notes text of the row is not empty), within [0.10, 0.99]; the label is
\* high from 0.80, medium from 0.62 and low below.
C8_Confidence ==
    \A i \in 1..Len(output_rows) :
        LET row == output_rows[i]
            bonus == IF row.data_notes # << >> THEN 3 ELSE 0
        IN  /\ row.data_confidence_score
                   = documented_clamp(documented_base(row) + bonus)
            /\ row.data_confidence = documented_label(row.data_confidence_score)

\* four sources and two flags: 0.78, medium
C8_Witness ==
    \E i \in 1..Len(output_rows) :
        /\ output_rows[i].source_count = 4
        /\ flags(output_rows[i]) = 2
        /\ output_rows[i].data_confidence_score = 78
        /\ output_rows[i].data_confidence = "medium"

\* C9 as stated: the score holds the bonus of 0.03 exactly when the note
\* of the documents or the Notes text of the row is not empty.
C9_AsStated ==
    \A i \in 1..Len(output_rows) :
        LET row == output_rows[i]
            noted == row.pdf_notes # << >> \/ row.data_notes # << >>
        IN  row.data_confidence_score
                = documented_clamp(documented_base(row) + (IF noted THEN 3 ELSE 0))

\* a row with a note of the documents and no Notes text
C9_Witness ==
    \E i \in 1..Len(output_rows) :
        /\ output_rows[i].pdf_notes # << >>
        /\ output_rows[i].data_notes = << >>

\* the player is in all four sources, with one club and one position in
\* all of them, projected score 105 and relative value 25
C10_Scenario(row) ==
    /\ Len(ultimate_rows) = 1 /\ Len(rankings_rows) = 1
    /\ Len(data_rows) = 1 /\ Len(expert_rows) = 1
    /\ row.source_count = 4
    /\ StripUpper(rankings_rows[1].Team) = StripUpper(ultimate_rows[1].Club)
    /\ StripUpper(data_rows[1].Club) = StripUpper(ultimate_rows[1].Club)
    /\ StripUpper(ultimate_rows[1].Club) # << >>
    /\ normalize_position(rankings_rows[1].Position)
           = normalize_position(ultimate_rows[1].Position)
    /\ normalize_position(data_rows[1].Position)
           = normalize_position(ultimate_rows[1].Position)
    /\ expert_rows[1].pos = normalize_position(ultimate_rows[1].Position)
    /\ normalize_position(ultimate_rows[1].Position) # << >>
    /\ row.proj_score = Some(1050)
    /\ row.data_relative_value = Some(250)

C10_Outcome(row) ==
    /\ row.category = "premium"
    /\ row.data_confidence_score = 94
    /\ row.data_confidence = "high"

\* C10 as stated: the player of the scenario is premium with confidence
\* 0.94, high.
C10_AsStated ==
    overridden =>
        \A i \in 1..Len(output_rows) :
            C10_Scenario(output_rows[i]) => C10_Outcome(output_rows[i])

\* C10: the player of the scenario is premium with confidence 0.94, high,
\* when his byes and his projections do not conflict, his row has no Notes
\* text, the documents do not flag him season-ending and he has no manual
\* override.
C10_EndToEnd ==
    overridden =>
        \A i \in 1..Len(output_rows) :
            (/\ C10_Scenario(output_rows[i])
             /\ output_rows[i].bye_conflict = 0
             /\ output_rows[i].projection_conflict = 0
             /\ output_rows[i].data_notes = << >>
             /\ output_rows[i].pdf_season_out # 1
             /\ ~has_override(output_rows[i]))
                => C10_Outcome(output_rows[i])

C10_Witness ==
    /\ pc = "done"
    /\ \E i \in 1..Len(output_rows) :
          /\ C10_Scenario(output_rows[i])
          /\ output_rows[i].bye_conflict = 0
          /\ output_rows[i].projection_conflict = 0
          /\ output_rows[i].data_notes = << >>
          /\ output_rows[i].pdf_season_out # 1
          /\ ~has_override(output_rows[i])
          /\ output_rows[i].pdf_notes # << >>

---------------------------------------------------------------------------
(* Runs about many players: the replacement levels and the draft score.    *)

\* Draft runs hold up to MaxFill ruck players of the ultimate source, with
\* projections 98, 96, ... going down, and up to four more players.
MaxFill == 13

FILLER_LETTERS ==
    <<"A","B","C","D","E","F","G","H","I","J","K","L","M","N","O","P">>

FillerName(i) == <<FILLER_LETTERS[i], "a", " ", FILLER_LETTERS[i], "b">>

Filler(i) == UltimateRow(FillerName(i), GWS, TRUC, Some(1000 - 20 * i))

Xavier == <<"X","x"," ","X","y">>

Yannick == <<"Y","y"," ","Y","z">>

Zed == <<"Z","z"," ","Z","q">>

DRAFT_RANKINGS ==
    AtMostOne({RankingsRow(Xavier, GWS, TRUC, Some(900)),
               RankingsRow(Xavier, GWS, RucFwd, Some(1200)),
               RankingsRow(Xavier, GWS, TMID, Some(1200)),
               RankingsRow(Xavier, GWS, TRUC, None)})

DRAFT_DATA ==
    AtMostOne({DataRow(Yannick, GWS, TRUC, Some(1200)),
               DataRow(Yannick, GWS, TMID, Some(500))})

DRAFT_EXPERTS == AtMostOne({ExpertRow(Xavier, TRUC, "A1", 1)})

DRAFT_EXTRA == AtMostOne({UltimateRow(Zed, GWS, TMID, Some(500))})

InitDraft ==
    \E k \in 0..MaxFill :
      \E extra \in DRAFT_EXTRA, r \in DRAFT_RANKINGS, d \in DRAFT_DATA,
         e \in DRAFT_EXPERTS :
          Start([i \in 1..k |-> Filler(i)] \o extra, r, d, e,
                SHEET_SIZES, << >>, CODE_ORDER)

SpecDraft == InitDraft /\ [][Next]_vars

---------------------------------------------------------------------------
(* C6.                                                                     *)

\* the rows with a projected score whose position set holds pos
eligible_rows(pos) ==
    {i \in 1..Len(output_rows) :
        /\ ~IsNone(output_rows[i].proj_score)
        /\ pos \in position_set(output_rows[i].pos)}

score_at(i) == Val(output_rows[i].proj_score)

\* v is the score at rank n of the rows in E, ranked by score descending
at_rank(v, n, E) ==
    /\ \E i \in E : score_at(i) = v
    /\ Cardinality({i \in E : score_at(i) > v}) < n
    /\ Cardinality({i \in E : score_at(i) >= v}) >= n

C6_Level(pos) ==
    LET E == eligible_rows(pos)
    IN  IF E = {} THEN replacement[pos] = 0
        ELSE IF Cardinality(E) <= ROSTER_SLOTS[pos]
        THEN /\ \E i \in E : score_at(i) = replacement[pos]
             /\ \A i \in E : score_at(i) >= replacement[pos]
        ELSE at_rank(replacement[pos], ROSTER_SLOTS[pos], E)

\* C6: the replacement level of a position is the projected score at rank
\* ROSTER_SLOTS[pos] of its eligible rows when there are more of them than
\* that, the lowest of their scores when there are 1 to ROSTER_SLOTS[pos],
\* and 0 when there is none.
C6_Replacement ==
    pc \in {"score", "sort", "done"} =>
        \A pos \in Range(POS_ORDER) : C6_Level(pos)

\* more rucks than ruck slots, the score at rank 12 above the lowest;
\* fewer midfielders than slots; no defender
C6_Witness ==
    /\ pc = "done"
    /\ Cardinality(eligible_rows(TRUC)) > ROSTER_SLOTS[TRUC]
    /\ \E i \in eligible_rows(TRUC) : score_at(i) < replacement[TRUC]
    /\ Cardinality(eligible_rows(TMID)) = 2
    /\ eligible_rows(TDEF) = {}

---------------------------------------------------------------------------
(* C7.                                                                     *)

scored(i) ==
    /\ ~IsNone(output_rows[i].proj_score)
    /\ position_set(output_rows[i].pos) # {}

\* the inputs of the draft score other than projection and vorp are equal
rest_equal(i, j) ==
    /\ output_rows[i].data_relative_value = output_rows[j].data_relative_value
    /\ output_rows[i].adp_value_gap = output_rows[j].adp_value_gap
    /\ output_rows[i].expert_percentile = output_rows[j].expert_percentile
    /\ output_rows[i].data_confidence_score = output_rows[j].data_confidence_score

higher_projection(i, j) ==
    /\ position_set(output_rows[i].pos) = position_set(output_rows[j].pos)
    /\ score_at(i) <= score_at(j)

higher_vorp(i, j) ==
    /\ score_at(i) = score_at(j)
    /\ Val(output_rows[i].vorp_proxy) > 0
    /\ Val(output_rows[i].vorp_proxy) <= Val(output_rows[j].vorp_proxy)

\* C7: of two scored rows that differ in nothing but the projected score
\* the one with the higher projection has no lower draft score, and of two
\* that differ in nothing but a positive vorp the one with the higher vorp
\* has no lower draft score.
C7_Monotone ==
    pc \in {"sort", "done"} =>
        \A i, j \in 1..Len(output_rows) :
            (/\ scored(i) /\ scored(j) /\ rest_equal(i, j)
             /\ higher_projection(i, j) \/ higher_vorp(i, j))
                => Val(output_rows[i].draft_score) <= Val(output_rows[j].draft_score)

\* both cases with a strict rise
C7_Witness ==
    /\ pc = "done"
    /\ \E i, j \in 1..Len(output_rows) :
          /\ scored(i) /\ scored(j) /\ rest_equal(i, j)
          /\ higher_projection(i, j)
          /\ score_at(i) < score_at(j)
          /\ Val(output_rows[i].draft_score) < Val(output_rows[j].draft_score)
    /\ \E i, j \in 1..Len(output_rows) :
          /\ scored(i) /\ scored(j) /\ rest_equal(i, j)
          /\ higher_vorp(i, j)
          /\ Val(output_rows[i].vorp_proxy) < Val(output_rows[j].vorp_proxy)
          /\ Val(output_rows[i].draft_score) < Val(output_rows[j].draft_score)

---------------------------------------------------------------------------
(* C11.                                                                    *)

\* the records that get an output row, in the order of the rows
named_records == SelectSeq(records, LAMBDA rec : Strip(rec.name) # << >>)

\* the club strings the rows of the record carry, by source
clubs_carried(rec) ==
    (IF IsNone(rec.rankings) THEN << >>
     ELSE <<StripUpper(Val(rec.rankings).Team)>>)
    \o (IF IsNone(rec.ultimate) THEN << >>
        ELSE <<StripUpper(Val(rec.ultimate).Club)>>)
    \o (IF IsNone(rec.data) THEN << >>
        ELSE <<StripUpper(Val(rec.data).Club)>>)

\* two sources of the record carry different clubs, none of them empty
clubs_differ(carried) ==
    \E s, t \in 1..Len(carried) :
        /\ carried[s] # << >>
        /\ carried[t] # << >>
        /\ carried[s] # carried[t]

agreed(club_text, club) == IF StripUpper(club_text) = << >> THEN club_text ELSE club

\* the record of the same player with the one club in every row that
\* names a club
agreeing_record(rec, club) ==
    [rec EXCEPT
       !.rankings = IF IsNone(@) THEN @
                    ELSE Some([Val(@) EXCEPT !.Team = agreed(@, club)]),
       !.ultimate = IF IsNone(@) THEN @
                    ELSE Some([Val(@) EXCEPT !.Club = agreed(@, club)]),
       !.data = IF IsNone(@) THEN @
                ELSE Some([Val(@) EXCEPT !.Club = agreed(@, club)])]

\* the two rows differ in the club flag alone: the source count, the other
\* three flags and the notes are the same
same_but_club(row, other) ==
    /\ other.source_count = row.source_count
    /\ other.position_conflict = row.position_conflict
    /\ other.bye_conflict = row.bye_conflict
    /\ other.projection_conflict = row.projection_conflict
    /\ other.data_notes = row.data_notes
    /\ other.pdf_notes = row.pdf_notes

C11_Reduced(row, other) ==
    /\ row.club_conflict = 1
    /\ other.club_conflict = 0
    /\ same_but_club(row, other)
           => row.data_confidence_score = other.data_confidence_score - 8

C11_Row(row, rec) ==
    clubs_differ(clubs_carried(rec))
        => C11_Reduced(row, build_row(agreeing_record(rec, row.club),
                                      expert_sheet_sizes, pdf_sources))

\* C11: a player whose rows in two sources carry different clubs, none
\* empty, compared trimmed and in upper case, has club_conflict = 1, and a
\* confidence score 0.08 below that of the same player with one club in
\* all his rows, the source count, the other flags and the notes being the
\* same.
C11_ClubConflict ==
    pc # "fold" =>
        \A i \in 1..Len(output_rows) :
            C11_Row(output_rows[i], named_records[i])

\* a player of three sources whose clubs differ, and who differs from the
\* player of one club in the club flag alone
C11_Witness ==
    /\ pc # "fold"
    /\ \E i \in 1..Len(output_rows) :
          /\ clubs_differ(clubs_carried(named_records[i]))
          /\ output_rows[i].source_count >= 3
          /\ same_but_club(output_rows[i],
                           build_row(agreeing_record(named_records[i],
                                                     output_rows[i].club),
                                     expert_sheet_sizes, pdf_sources))

---------------------------------------------------------------------------
(* C12.                                                                    *)

\* the player of the row is in the expert sheets and in no other source
expert_only(row) ==
    \E k \in 1..Len(records) :
        /\ Strip(records[k].name) = row.name
        /\ records[k].sources = {"experts"}

names_of(rows) == {rows[i].name : i \in 1..Len(rows)}

C12_Outcome(row) ==
    /\ row.category = "depth"
    /\ IsNone(row.draft_score)
    /\ row.name \notin names_of(app_rows)

\* C12 as stated: every player of the expert sheets alone is depth, has no
\* draft score and is not in the app rows.
C12_AsStated ==
    pc = "done" =>
        \A i \in 1..Len(full_rows) :
            expert_only(full_rows[i]) => C12_Outcome(full_rows[i])

\* C12: every player of the expert sheets alone whom the manual override
\* table does not name is depth, has no draft score and is not in the app
\* rows.
C12_ExpertOnly ==
    pc = "done" =>
        \A i \in 1..Len(full_rows) :
            (expert_only(full_rows[i]) /\ ~has_override(full_rows[i]))
                => C12_Outcome(full_rows[i])

\* a player of the expert sheets alone, without override, beside a player
\* who is in the app rows
C12_Witness ==
    /\ pc = "done"
    /\ app_rows # << >>
    /\ \E i \in 1..Len(full_rows) :
          /\ expert_only(full_rows[i])
          /\ ~has_override(full_rows[i])

---------------------------------------------------------------------------
(* The runs of C13, C14 and C15: up to four players, one of each source,   *)
(* each in a position of his own (so that every vorp_proxy is 0), with     *)
(* projected scores above, at and below 0 and with fields missing.  With   *)
(* one source and no expert rank the draft score is                        *)
(* 0.72 * proj + 0.35 * relative value + 7.20.                             *)

Walter == <<"W","w"," ","W","v">>

SORT_RANKINGS ==
    AtMostOne({[RankingsRow(Xavier, team, position, projected) EXCEPT !.Bye = bye] :
                  team \in {GWS, << >>}, position \in {TDEF, << >>},
                  projected \in {Some(900), Some(0), Some(0 - 200), None},
                  bye \in {Some(12), None}})

SORT_DATA ==
    AtMostOne({[DataRow(Yannick, GEEL, TMID, projected) EXCEPT
                   !.RelativeValue = value] :
                  projected \in {Some(900), Some(0 - 35), Some(0 - 100)},
                  value \in {None, Some(72)}})

SORT_ULTIMATE ==
    AtMostOne({[UltimateRow(Zed, GWS, TRUC, avg) EXCEPT !.BYES_Mid = bye] :
                  avg \in {Some(900), Some(0), None}, bye \in {Some(0), None}})

SORT_EXPERTS == AtMostOne({ExpertRow(Walter, TFWD, "A1", 1)})

InitSort ==
    \E u \in SORT_ULTIMATE, r \in SORT_RANKINGS, d \in SORT_DATA,
       e \in SORT_EXPERTS :
        Start(u, r, d, e, SHEET_SIZES, << >>, CODE_ORDER)

SpecSort == InitSort /\ [][Next]_vars

---------------------------------------------------------------------------
(* C13.                                                                    *)

\* row a may stand before row b: draft score descending, then projected
\* score descending, then name ascending
in_order(a, b) ==
    \/ Val(a.draft_score) > Val(b.draft_score)
    \/ /\ Val(a.draft_score) = Val(b.draft_score)
       /\ Val(a.proj_score) > Val(b.proj_score)
    \/ /\ Val(a.draft_score) = Val(b.draft_score)
       /\ Val(a.proj_score) = Val(b.proj_score)
       /\ ~StrLess(b.name, a.name)

both_scored(a, b) == ~IsNone(a.draft_score) /\ ~IsNone(b.draft_score)

\* C13 as stated: any two adjacent rows of the full list that both have a
\* draft score stand in the order draft score descending, projected score
\* descending, name ascending, scores of exactly 0 included.
C13_AsStated ==
    pc = "done" =>
        \A i \in 1..(Len(full_rows) - 1) :
            both_scored(full_rows[i], full_rows[i + 1])
                => in_order(full_rows[i], full_rows[i + 1])

\* two scored rows side by side, one of them with the draft score or the
\* projected score 0
C13_Witness ==
    /\ pc = "done"
    /\ \E i \in 1..(Len(full_rows) - 1) :
          /\ both_scored(full_rows[i], full_rows[i + 1])
          /\ \/ Val(full_rows[i + 1].draft_score) = 0
             \/ Val(full_rows[i + 1].proj_score) = 0
          /\ ~in_order(full_rows[i], full_rows[i + 1])

---------------------------------------------------------------------------
(* C14.                                                                    *)

\* the scoring pass of step 7 is behind
scoring_done == pc \in {"sort", "done"}

C14_Unscored(row) ==
    /\ row.best_pos = << >>
    /\ IsNone(row.vorp_proxy)
    /\ IsNone(row.draft_score)

\* C14: every player without projected score has best_pos "", no
\* vorp_proxy and no draft score, and stands in the full list behind every
\* row that has a draft score.
C14_UnprojectedLast ==
    /\ scoring_done =>
          \A i \in 1..Len(output_rows) :
              IsNone(output_rows[i].proj_score) => C14_Unscored(output_rows[i])
    /\ pc = "done" =>
          \A i, j \in 1..Len(full_rows) :
              (/\ IsNone(full_rows[i].proj_score)
               /\ ~IsNone(full_rows[j].draft_score))
                  => /\ C14_Unscored(full_rows[i])
                     /\ j < i

\* two players without projected score and two with a draft score, one of
\* these below 0
C14_Witness ==
    /\ pc = "done"
    /\ Cardinality({i \in 1..Len(full_rows) : IsNone(full_rows[i].proj_score)}) >= 2
    /\ Cardinality({i \in 1..Len(full_rows) : ~IsNone(full_rows[i].draft_score)}) >= 2
    /\ \E i \in 1..Len(full_rows) :
          /\ ~IsNone(full_rows[i].draft_score)
          /\ Val(full_rows[i].draft_score) < 0

---------------------------------------------------------------------------
(* C15.                                                                    *)

\* name, position, club, projected score and bye week are all there
all_five(row) ==
    /\ row.name # << >>
    /\ row.pos # << >>
    /\ row.club # << >>
    /\ ~IsNone(row.proj_score)
    /\ ~IsNone(row.bye)

\* sub is a subsequence of rows: the rows of sub, each once, in the order
\* they have in rows
subsequence_of(sub, rows) ==
    \E f \in [1..Len(sub) -> 1..Len(rows)] :
        /\ \A k \in 1..Len(sub) : sub[k] = rows[f[k]]
        /\ \A k, l \in 1..Len(sub) : k < l => f[k] < f[l]

\* C15: the app rows are the rows of the full list that have all of name,
\* position, club, projected score and bye week, in the order of the full
\* list: none of them lacks one of the five and no row that has the five
\* is left out.
C15_AppProjection ==
    pc = "done" =>
        /\ subsequence_of(app_rows, full_rows)
        /\ \A k \in 1..Len(app_rows) : all_five(app_rows[k])
        /\ Cardinality({i \in 1..Len(full_rows) : all_five(full_rows[i])})
               = Len(app_rows)

\* two rows in the app list, one with the projected score 0 and one with
\* the bye 0, and a row left out
C15_Witness ==
    /\ pc = "done"
    /\ Len(app_rows) >= 2
    /\ Len(full_rows) > Len(app_rows)
    /\ \E k \in 1..Len(app_rows) : app_rows[k].proj_score = Some(0)
    /\ \E k \in 1..Len(app_rows) : app_rows[k].bye = Some(0)

---------------------------------------------------------------------------
(* The runs of C16 and C17: one row, in any of the four sources, whose     *)
(* name is any string of at most MaxNameLen characters of NAME_ALPHABET    *)
(* (a lower-case letter, an upper-case letter, a digit, the apostrophe,    *)
(* the hyphen, the blank and the right single quotation mark) or one of    *)
(* the spellings of NAME_SPELLINGS.  A missing name (None) and the empty   *)
(* name are the same value here, as they are to "if not value".            *)

MaxNameLen == 3

NAME_ALPHABET == {"a", "Z", "1", "'", "-", " ", "U+2019"}

NoahRobertsThomson == <<"N","o","a","h"," ","R","o","b","e","r","t","s","-","T","h","o","m","s","o","n">>

NAME_SPELLINGS ==
    {NoahRobertsThomson, ZacReid, ZachReid,
     <<"z","a","c","r","e","i","d">>,
     <<"Z","A","C"," "," ","R","E","I","D">>,
     <<"z","a","c","h","r","e","i","d">>}

NAME_POOL ==
    UNION {Tuples(NAME_ALPHABET, n) : n \in 0..MaxNameLen} \cup NAME_SPELLINGS

InitNames ==
    \E x \in NAME_POOL :
      \E source \in {"ultimate", "rankings", "data", "experts"} :
        Start(IF source = "ultimate" THEN <<UltimateRow(x, GWS, TMID, Some(900))>>
              ELSE << >>,
              IF source = "rankings" THEN <<RankingsRow(x, GWS, TMID, Some(900))>>
              ELSE << >>,
              IF source = "data" THEN <<DataRow(x, GWS, TMID, Some(900))>>
              ELSE << >>,
              IF source = "experts" THEN <<ExpertRow(x, TMID, "A1", 1)>>
              ELSE << >>,
              SHEET_SIZES, << >>, CODE_ORDER)

SpecNames == InitNames /\ [][Next]_vars

\* the names the rows of the run carry
row_names ==
    {ultimate_rows[i].Player : i \in 1..Len(ultimate_rows)}
    \cup {rankings_rows[i].Name : i \in 1..Len(rankings_rows)}
    \cup {data_rows[i].Player : i \in 1..Len(data_rows)}
    \cup {expert_rows[i].player : i \in 1..Len(expert_rows)}

---------------------------------------------------------------------------
(* C16.                                                                    *)

\* C16: canonical_key(canonical_key(x)) = canonical_key(x) for every name
\* x, the key of every record of the registry is a fixed point, and no
\* value of the alias table is a key of the alias table.
C16_Idempotent ==
    /\ \A x \in row_names : canonical_key(canonical_key(x)) = canonical_key(x)
    /\ \A k \in 1..Len(records) : canonical_key(records[k].key) = records[k].key
    /\ \A key \in DOMAIN MANUAL_ALIASES : MANUAL_ALIASES[key] \notin DOMAIN MANUAL_ALIASES

\* a record stored under the corrected spelling of an alias, and in
\* other runs names that are empty, of punctuation alone, or their own key
C16_Witness ==
    /\ \E k \in 1..Len(records) :
          /\ nkey(records[k].name) \in DOMAIN MANUAL_ALIASES
          /\ records[k].key = MANUAL_ALIASES[nkey(records[k].name)]
    /\ row_names \cap NAME_SPELLINGS # {}

---------------------------------------------------------------------------
(* C17.                                                                    *)

\* the normalized form of a name: its letters and digits, in lower case
documented_normal(x) ==
    SelectSeq(Lower(x), LAMBDA c : c \in LowerLetters \cup Digits)

documented_key(normal) ==
    IF normal \in DOMAIN MANUAL_ALIASES THEN MANUAL_ALIASES[normal] ELSE normal

\* C17: the key of a name is the entry of the alias table for its
\* normalized form when there is one and the normalized form itself when
\* there is none; "Noah Roberts-Thomson" has the key "noahrobertsthompson"
\* and the empty or missing name the empty key.
C17_AliasAfterNormal ==
    /\ \A x \in row_names : canonical_key(x) = documented_key(documented_normal(x))
    /\ canonical_key(NoahRobertsThomson) = <<"n","o","a","h","r","o","b","e","r","t","s","t","h","o","m","p","s","o","n">>
    /\ canonical_key(<< >>) = << >>

\* the row of "Noah Roberts-Thomson" is folded and his record has the
\* corrected key
C17_Witness ==
    /\ NoahRobertsThomson \in row_names
    /\ \E k \in 1..Len(records) : records[k].key = <<"n","o","a","h","r","o","b","e","r","t","s","t","h","o","m","p","s","o","n">>

---------------------------------------------------------------------------
(* Runs of main over input files of which any may be missing.  A file that *)
(* is not there holds no rows.                                             *)

MAIN_ULTIMATE == {UltimateRow(MaxHall, c, TMID, Some(900)) : c \in {<< >>, GWS}}

MAIN_RANKINGS ==
    {RankingsRow(MaxHal, GwsRaw, FwdMid, Some(900)), RankingsRow(MacHall, << >>, << >>, None)}

MAIN_DATA == {DataRow(n, GWS, TMID, Some(900)) : n \in {MacHall, SamHall}}

MAIN_EXPERTS == {ExpertRow(n, TMID, "A1", 1) : n \in {MaxHall, SamHall}}

\* what a file can hold: nothing at all when it is not there
held(exists, file, pool) == IF exists[file] THEN AtMostOne(pool) ELSE {<< >>}

InitMain ==
    \E exists \in [Range(REQUIRED_INPUTS) -> BOOLEAN] :
      \E u \in held(exists, "ultimate_xlsx", MAIN_ULTIMATE), r \in held(exists, "rankings_csv", MAIN_RANKINGS), d \in held(exists, "data_csv", MAIN_DATA), e \in held(exists, "expert_xlsx", MAIN_EXPERTS) :
        main_start(u, r, d, e, SHEET_SIZES, << >>, CODE_ORDER, exists)

SpecMain == InitMain /\ [][Next]_vars

some_missing == \E f \in Range(REQUIRED_INPUTS) : ~input_exists[f]

nothing_done ==
    /\ loaded = << >>
    /\ records = << >>
    /\ mapping_stats = [manual_alias_hits |-> 0, fuzzy_matches |-> 0]
    /\ output_rows = << >>
    /\ full_rows = << >>
    /\ app_rows = << >>
    /\ written = << >>

\* C18: when one of the four required input files is missing, main raises
\* in its first step, and at no time of the run is a source loaded, a
\* record folded, an output row built or an output file written.
C18_FailFast ==
    /\ [](some_missing => (main_pc \in {"check", "raised"} /\ nothing_done))
    /\ [][(main_pc = "check" /\ some_missing) => (main_pc' = "raised" /\ error' # None /\ ~input_exists[Val(error')])]_vars
    /\ [][main_pc = "raised" => FALSE]_vars

\* a run has raised because the data CSV, the last file of the loop, and
\* only it, is missing
C18_Witness ==
    /\ main_pc = "raised"
    /\ error = Some("data_csv")
    /\ \A f \in Range(REQUIRED_INPUTS) : input_exists[f] <=> f # "data_csv"
    /\ ultimate_rows # << >>
    /\ nothing_done

---------------------------------------------------------------------------
(* Runs over cells of every text: an ultimate row whose Price cell and a  *)
(* rankings row whose VORP cell hold the same text.                       *)

MaxTextLen == 3

TEXT_ALPHABET == {"1", "5", "0", ".", "-", "e", ",", " ", "%", "x"}

RECURSIVE texts_up_to(_)
texts_up_to(n) ==
    IF n = 0 THEN {<< >>}
    ELSE texts_up_to(n - 1) \cup {<<c>> \o t : c \in TEXT_ALPHABET, t \in {x \in texts_up_to(n - 1) : Len(x) = n - 1}}

\* longer texts: separators and symbols, spellings of floats that are not
\* finite, literals beyond the range of a double, text that is no number
TEXT_SPELLINGS ==
    {<<"$","1",",","5","0","0",".","5","0">>, <<"7","2",".","5","%">>,
     <<"$"," ","5">>, <<"1","_","5">>, <<"+","2",".","5">>,
     <<"i","n","f">>, <<"-","i","n","f">>, <<"I","n","f","i","n","i","t","y">>,
     <<"n","a","n">>, <<"N","a","N">>, <<"i","n","f","%">>,
     <<"1","e","9","9","9">>, <<"2","e","3","0","8">>, <<"1","e","3","0","8">>,
     <<"1","e","-","9","9","9">>,
     <<"n","/","a">>, <<"#","D","I","V","/","0","!">>, <<"T","B","C">>}

CELL_POOL == {None} \cup {Some(t) : t \in texts_up_to(MaxTextLen) \cup TEXT_SPELLINGS}

priced(row, cell) == [row EXCEPT !.Price = cell]

valued(row, cell) == [row EXCEPT !.VORP = cell]

InitParse ==
    \E cell \in CELL_POOL :
        Start(<<priced(UltimateRow(MaxHall, GWS, TMID, Some(900)), cell)>>, <<valued(RankingsRow(ZacReid, GEEL, FwdMid, Some(900)), cell)>>, <<DataRow(SamHall, GWS, TMID, Some(900))>>, <<ExpertRow(MaxHall, TMID, "A1", 1)>>, SHEET_SIZES, << >>, CODE_ORDER)

SpecParse == InitParse /\ [][Next]_vars

\* the cells of the rows that were loaded
cells == {ultimate_rows[i].Price : i \in 1..Len(ultimate_rows)} \cup {rankings_rows[i].VORP : i \in 1..Len(rankings_rows)}

\* characters no spelling of a number has, whatever is stripped: a text
\* with one of them is malformed
NUMERIC_CHARACTERS == Digits \cup {"+", "-", ".", "e", "E", "_", ",", "%", "$", " "} \cup {"i", "n", "f", "t", "y", "a", "I", "N", "F", "T", "Y", "A"}

malformed(cell) == ~IsNone(cell) /\ \E i \in 1..Len(Val(cell)) : Val(cell)[i] \notin NUMERIC_CHARACTERS

is_float(result) == ~IsNone(result) /\ ~Raised(result) /\ Val(result).kind \in {"finite", "inf", "nan"}

is_int(result) == ~IsNone(result) /\ ~Raised(result) /\ Val(result).mantissa \in Nat /\ Val(result).exp10 \in Nat

\* C19 as stated: for every cell, safe_float gives a float or null and
\* safe_int an integer or null, neither raises, malformed text gives null
\* from both, and no run over input files that exist raises.
C19_AsStated ==
    /\ \A cell \in cells :
        /\ IsNone(safe_float(cell)) \/ is_float(safe_float(cell))
        /\ IsNone(safe_int(cell)) \/ is_int(safe_int(cell))
        /\ malformed(cell) => IsNone(safe_float(cell)) /\ IsNone(safe_int(cell))
    /\ ~some_missing => main_pc # "raised"

\* the run has ended in the exception safe_int raised on the Price cell
\* "inf" of a row, after all four sources were folded and before any row
\* was built or written
C19_Witness ==
    /\ main_pc = "raised"
    /\ error = Some("OverflowError")
    /\ ~some_missing
    /\ ultimate_rows[1].Price = Some(<<"i","n","f">>)
    /\ safe_float(ultimate_rows[1].Price) = Some(Infinite(FALSE))
    /\ Len(records) = 3
    /\ output_rows = << >>
    /\ written = << >>

\* what holds of the two functions: safe_float never raises and gives null
\* exactly for text that spells no float, and safe_int raises exactly when
\* safe_float gives a float that is not finite.
C19_ParsingHolds ==
    \A cell \in cells :
        /\ ~Raised(safe_float(cell))
        /\ malformed(cell) => IsNone(safe_float(cell)) /\ IsNone(safe_int(cell))
        /\ Raised(safe_int(cell)) <=> (is_float(safe_float(cell)) /\ Val(safe_float(cell)).kind # "finite")
        /\ (main_pc = "raised" /\ ~some_missing) => Raised(safe_int(ultimate_rows[1].Price))

---------------------------------------------------------------------------
(* Runs in which a name is resolved against records whose scores lie on   *)
(* a threshold or are equal to one another.                               *)

JoshKell == <<"J","o","s","h"," ","K","e","l","l">>

JoshDKelly == <<"J","o","s","h"," ","D"," ","K","e","l","l","y">>

JoshKe == <<"J","o","s","h"," ","K","e">>

JoshKel == <<"J","o","s","h"," ","K","e","l">>

TomLi == <<"T","o","m"," ","L","i">>

TomBLi == <<"T","o","m"," ","B"," ","L","i">>

TomLim == <<"T","o","m"," ","L","i","m">>

TomLin == <<"T","o","m"," ","L","i","n">>

FUZZY_ULTIMATE ==
    {UltimateRow(JoshDKelly, << >>, TMID, Some(900)), UltimateRow(JoshKel, << >>, TMID, Some(900)),
     UltimateRow(TomBLi, << >>, TMID, Some(900)), UltimateRow(TomLim, GWS, TMID, Some(900)),
     UltimateRow(TomLin, << >>, TMID, Some(900))}

FUZZY_RANKINGS ==
    {RankingsRow(JoshKell, c, FwdMid, Some(900)) : c \in {<< >>, GEEL}}
    \cup {RankingsRow(JoshKe, << >>, FwdMid, Some(900))}
    \cup {RankingsRow(TomLi, c, FwdMid, Some(900)) : c \in {<< >>, GWS}}

FUZZY_DATA == {DataRow(JoshKell, << >>, TMID, Some(900)), DataRow(TomLi, GWS, TMID, Some(900))}

FUZZY_EXPERTS == {ExpertRow(n, TMID, "A1", 1) : n \in {JoshKell, TomLi}}

\* the sequences of at most two different elements of S
UpToTwo(S) == AtMostOne(S) \cup {p \in {<<x, y>> : x \in S, y \in S} : p[1] # p[2]}

InitFuzzy ==
    \E u \in UpToTwo(FUZZY_ULTIMATE), r \in AtMostOne(FUZZY_RANKINGS), d \in AtMostOne(FUZZY_DATA), e \in AtMostOne(FUZZY_EXPERTS) :
        Start(u, r, d, e, SHEET_SIZES, << >>, CODE_ORDER)

SpecFuzzy == InitFuzzy /\ [][Next]_vars

\* the row at the cursor is resolved by the scores: its key is not in the
\* registry and its name has letters
fuzzy_case ==
    /\ folding
    /\ incoming_source # "ultimate"
    /\ incoming_name # << >>
    /\ ~HasKey(records, canonical_key(incoming_name))
    /\ first_last(incoming_name) # << << >>, << >> >>

\* the records that are scored: those whose stored name has letters
candidates == {i \in 1..Len(records) : first_last(records[i].name)[2] # << >>}

\* the adjusted score of record i, the exact value
claimed_score(i) == candidate_score(incoming_name, incoming_club, records[i])

fraction_less(a, b) == a[1] * b[2] < b[1] * a[2]

is_maximum(i) == i \in candidates /\ \A j \in candidates : ~fraction_less(claimed_score(i), claimed_score(j))

first_maximum == CHOOSE i \in candidates : is_maximum(i) /\ \A j \in 1..(i - 1) : ~is_maximum(j)

on_threshold(i) == claimed_score(i)[1] = incoming_threshold * claimed_score(i)[2]

claimed_match ==
    IF candidates = {} THEN None
    ELSE IF claimed_score(first_maximum)[1] >= incoming_threshold * claimed_score(first_maximum)[2] THEN Some(records[first_maximum].key)
    ELSE None

resolved_match == match_existing_key(incoming_name, incoming_club, records, incoming_threshold)

\* C20 as stated: a name with letters whose key is not in the registry
\* resolves to the key of the first record, in registry order, whose
\* adjusted score is the maximum, if and only if that score is at least the
\* threshold, and to none otherwise.
C20_AsStated == fuzzy_case => resolved_match = claimed_match

\* "Josh Kell" of the rankings is resolved against the record of
\* "Josh D Kelly": the score 0.65 * 8/9 + 0.25 * 8/9 + 0.10 is the threshold
\* 0.90, and no key is returned
C20_Witness ==
    /\ fuzzy_case
    /\ incoming_source = "rankings"
    /\ incoming_name = JoshKell
    /\ Len(records) = 1
    /\ records[1].name = JoshDKelly
    /\ on_threshold(1)
    /\ resolved_match = None
    /\ claimed_match = Some(records[1].key)

\* the maximum is on the threshold, or two records with different ratios
\* or adjustments have the maximum
double_decides ==
    /\ candidates # {}
    /\ \/ on_threshold(first_maximum)
       \/ \E i \in candidates : is_maximum(i) /\ score_parts(incoming_name, incoming_club, records[i]) # score_parts(incoming_name, incoming_club, records[first_maximum])

\* what holds: away from scores on the threshold and from equal scores of
\* different make, the resolution is the one C20 states
C20_AwayFromTies == (fuzzy_case /\ ~double_decides) => resolved_match = claimed_match

\* among equal maxima, a later record is returned instead of the first
C20_LaterWins ==
    /\ fuzzy_case
    /\ incoming_name = TomLi
    /\ Len(records) = 2
    /\ is_maximum(1) /\ is_maximum(2)
    /\ resolved_match = Some(records[2].key)

---------------------------------------------------------------------------
(* C21: the club and the position of a record through the folds.           *)

\* Fold runs hold at most MaxFoldRows rows over the four sources.
MaxFoldRows == 3

Blank == <<" ", " ">>

\* "Max Hal" resolves to the record of "Max Hall" with the club GWS or with
\* no club (0.914 + 0.05 and 0.914), and not with the club GEEL in the
\* rankings and the data (0.914 - 0.08).
FOLD_ULTIMATE ==
    { UltimateRow(MaxHall, GWS, TMID, Some(900)),
      UltimateRow(MaxHall, Blank, << >>, None),
      UltimateRow(MaxHall, << >>, TFWD, None) }

FOLD_RANKINGS ==
    { RankingsRow(MaxHal, GwsRaw, FwdMid, Some(900)),
      RankingsRow(MaxHall, GEEL, << >>, None),
      RankingsRow(MaxHal, << >>, TRUC, None) }

FOLD_DATA ==
    { DataRow(MaxHal, GEEL, TDEF, Some(900)),
      DataRow(MaxHall, << >>, MidFwd, None),
      DataRow(MaxHal, GWS, << >>, None) }

FOLD_EXPERTS ==
    { ExpertRow(MaxHall, TMID, "A1", 2), ExpertRow(MaxHal, TMID, "A1", 1),
      ExpertRow(MaxHall, TMID, "A1", 3), ExpertRow(MaxHall, TMID, "A2", 1),
      ExpertRow(MaxHal, TMID, "A2", 2), ExpertRow(MaxHall, TRUC, "A1", 1),
      ExpertRow(MaxHal, TRUC, "A1", 2) }

InitFold ==
    \E nu \in 0..MaxFoldRows :
      \E nr \in 0..(MaxFoldRows - nu) :
        \E nd \in 0..(MaxFoldRows - nu - nr) :
          \E ne \in 0..(MaxFoldRows - nu - nr - nd) :
            \E u \in Tuples(FOLD_ULTIMATE, nu), r \in Tuples(FOLD_RANKINGS, nr),
               d \in Tuples(FOLD_DATA, nd), e \in Tuples(FOLD_EXPERTS, ne) :
                  Start(u, r, d, e, SHEET_SIZES, << >>, CODE_ORDER)

SpecFold == InitFold /\ [][Next]_vars

\* the key of the record the row at the cursor is folded into
incoming_key ==
    IF incoming_source = "ultimate" THEN canonical_key(incoming_name)
    ELSE resolve_key(incoming_name, incoming_club, records, incoming_threshold).key

\* a step that folds a row into a record (a row without a name is skipped)
fold_step == folding /\ incoming_name # << >>

\* what the registry holds for a key before the step: "" for a new record
stored(field, key) ==
    IF HasKey(records, key) THEN record_of(records, key)[field] ELSE << >>

\* the club and the position a row brings: none for the club of an expert
\* row, the tag of the sheet for its position
incoming_club_text ==
    CASE incoming_source = "rankings" -> StripUpper(incoming_row.Team)
      [] incoming_source = "experts" -> << >>
      [] OTHER -> StripUpper(incoming_row.Club)

incoming_position ==
    IF incoming_source = "experts" THEN incoming_row.pos
    ELSE normalize_position(incoming_row.Position)

blank_club == incoming_source = "ultimate" /\ incoming_row.Club # << >>

---------------------------------------------------------------------------
(* C22: the name of a record.                                              *)

\* C22: a record is created with the name of the row that creates it, which
\* is never empty, and no later fold changes the name, that of a
\* fuzzy-matched row of another spelling included.
C22_FirstNameKept ==
    /\ [](\A i \in 1..Len(records) : records[i].name # << >>)
    /\ [][/\ \A i \in 1..Len(records) : records'[i].name = records[i].name
          /\ (fold_step /\ ~HasKey(records, incoming_key)) =>
                 /\ Len(records') = Len(records) + 1
                 /\ records'[Len(records')].key = incoming_key
                 /\ records'[Len(records')].name = incoming_name]_vars

\* the record of "Max Hall", made by the ultimate sheet, holds the rankings
\* row and the data row of "Max Hal", both fuzzy-matched, under its name
C22_Witness ==
    \E i \in 1..Len(records) :
        /\ records[i].name = MaxHall
        /\ records[i].ultimate # None
        /\ records[i].rankings = Some(RankingsRow(MaxHal, GwsRaw, FwdMid, Some(900)))
        /\ records[i].data = Some(DataRow(MaxHal, GWS, << >>, None))
        /\ mapping_stats.fuzzy_matches = 2

---------------------------------------------------------------------------
(* C23: the club and the position of an output row.                        *)

\* the rows of step 5 stand in the order of the registry, one for each record
rows_built == pc = "override" /\ Len(output_rows) = Len(records)

\* the first of four texts that is not empty
first_of_four(a, b, c, d) ==
    IF a # << >> THEN a ELSE IF b # << >> THEN b ELSE IF c # << >> THEN c ELSE d

\* the position tags of the expert sheets that rank the record
expert_tags(rec) == DOMAIN rec.expert_ranks

\* C23 as stated: the club and the position of an output row are the first
\* non-empty value of the rankings row, the ultimate row, the expert sheets
\* and the registry, in this order.  An expert sheet has no club; its
\* position is the tag of the sheet.
C23_AsStated ==
    rows_built =>
        \A i \in 1..Len(records) :
            LET rec == records[i]
                r_csv == Slot(rec.rankings, NoRankingsRow)
                r_u == Slot(rec.ultimate, NoUltimateRow)
            IN  /\ output_rows[i].club =
                     first_of_four(StripUpper(r_csv.Team), StripUpper(r_u.Club),
                                   << >>, StripUpper(rec.club))
                /\ (/\ normalize_position(r_csv.Position) = << >>
                    /\ normalize_position(r_u.Position) = << >>
                    /\ expert_tags(rec) # {})
                       => output_rows[i].pos \in expert_tags(rec)

\* C23: the club and the position of an output row are the first non-empty
\* value of the rankings row, the ultimate row, the data row (the auxiliary
\* source) and the registry, in this order; the expert sheets come in only
\* through the registry.
C23_Priority ==
    rows_built =>
        \A i \in 1..Len(records) :
            LET rec == records[i]
                r_csv == Slot(rec.rankings, NoRankingsRow)
                r_u == Slot(rec.ultimate, NoUltimateRow)
                r_d == Slot(rec.data, NoDataRow)
            IN  /\ output_rows[i].club =
                     first_of_four(StripUpper(r_csv.Team), StripUpper(r_u.Club),
                                   StripUpper(r_d.Club), StripUpper(rec.club))
                /\ output_rows[i].pos =
                     first_of_four(normalize_position(r_csv.Position),
                                   normalize_position(r_u.Position),
                                   normalize_position(r_d.Position),
                                   normalize_position(rec.pos))

\* a player of the data, a defender there, whom an expert sheet ranks as a
\* midfielder: the row says DEF
C23_Witness ==
    /\ rows_built
    /\ \E i \in 1..Len(records) :
          /\ records[i].rankings = None /\ records[i].ultimate = None
          /\ records[i].data = Some(DataRow(MaxHal, GEEL, TDEF, Some(900)))
          /\ expert_tags(records[i]) = {TMID}
          /\ output_rows[i].pos = TDEF
          /\ output_rows[i].club = GEEL

---------------------------------------------------------------------------
(* C24: the ranks of the expert sheets.                                    *)

\* the number of expert rows folded so far (the expert loop is the last)
experts_folded ==
    IF pc # "fold" THEN Len(expert_rows)
    ELSE IF phase <= Len(order) /\ order[phase] = "experts" THEN idx - 1
    ELSE 0

\* the registry when the loop of the experts starts
registry_before_experts ==
    fold_sources([records |-> << >>,
                  mapping_stats |-> [manual_alias_hits |-> 0, fuzzy_matches |-> 0]],
                 <<"ultimate", "rankings", "data">>, 1)

\* the key the j-th expert row resolved to, given the registry before it
expert_key_in(st, j) ==
    resolve_key(expert_rows[j].player, << >>, st.records, THRESHOLD_EXPERTS).key

expert_key(j) ==
    expert_key_in(fold_rows(registry_before_experts, "experts",
                            SubSeq(expert_rows, 1, j - 1), 1), j)

\* the ranks the folded expert rows of a sheet and an analyst gave a record
ranks_given(key, pos, analyst) ==
    {expert_rows[j].rank : j \in {k \in 1..experts_folded :
                                     /\ expert_rows[k].pos = pos
                                     /\ expert_rows[k].analyst = analyst
                                     /\ expert_key(k) = key}}

ANALYSTS == {"A1", "A2"}

\* the rank the registry holds, if any
stored_rank(rec, pos, analyst) ==
    IF pos \in DOMAIN rec.expert_ranks /\ analyst \in DOMAIN rec.expert_ranks[pos]
    THEN Some(rec.expert_ranks[pos][analyst]) ELSE None

least_of(ranks) == IF ranks = {} THEN None ELSE Some(SetMin(ranks))

\* C24: for every record, sheet and analyst the registry holds the lowest
\* rank of the expert rows of that sheet and analyst that resolved to the
\* record (none when there is no such row), and no fold raises a stored rank.
C24_BestRank ==
    /\ [](\A i \in 1..Len(records) : \A pos \in Range(POS_ORDER) : \A a \in ANALYSTS :
            stored_rank(records[i], pos, a) = least_of(ranks_given(records[i].key, pos, a)))
    /\ [][\A i \in 1..Len(records) : \A pos \in Range(POS_ORDER) : \A a \in ANALYSTS :
            stored_rank(records[i], pos, a) # None =>
                /\ stored_rank(records'[i], pos, a) # None
                /\ Val(stored_rank(records'[i], pos, a)) <= Val(stored_rank(records[i], pos, a))]_vars

\* three rows of analyst A1 on the MID sheet, in two spellings, gave the
\* player the ranks 2, 3 and 1 in this order: the registry holds 1
C24_Witness ==
    /\ experts_folded = 3
    /\ expert_rows = <<ExpertRow(MaxHall, TMID, "A1", 2), ExpertRow(MaxHall, TMID, "A1", 3),
                       ExpertRow(MaxHal, TMID, "A1", 1)>>
    /\ Len(records) = 1
    /\ records[1].expert_ranks = (TMID :> ("A1" :> 1))

---------------------------------------------------------------------------
(* C25: the position conflict flag.                                        *)

\* what the sources write in the Position cell
POSITION_TEXTS ==
    { << >>, TMID, MidFwd, FwdMid, <<"M","I","D","F","W","D">>,
      <<"m","i","d"," ">>, <<"R","u","c","k">>, <<"R","U","C","/","F","W","D">>,
      <<"U","T","I","L">> }

\* zero or one row of the player in a source
AtMostOneRow(rows) == {<< >>} \cup {<<row>> : row \in rows}

InitPosition ==
    \E u \in AtMostOneRow({UltimateRow(MaxHall, GWS, p, Some(900)) : p \in POSITION_TEXTS}),
       r \in AtMostOneRow({RankingsRow(MaxHall, GWS, p, Some(900)) : p \in POSITION_TEXTS}),
       d \in AtMostOneRow({DataRow(MaxHall, GWS, p, Some(900)) : p \in POSITION_TEXTS}),
       e \in AtMostOneRow({ExpertRow(MaxHall, TDEF, "A1", 1)}) :
          Start(u, r, d, e, SHEET_SIZES, << >>, CODE_ORDER)

SpecPosition == InitPosition /\ [][Next]_vars

\* the position tags a Position cell names: the tags that occur in its text,
\* whatever the case, the blanks and the order ("Ruck" names RUC)
tags_named(text) ==
    {p \in Range(POS_ORDER) : Contains(SelectSeq(Upper(text), LAMBDA c : c # " "), p)}

\* the tag sets of the three rows of a record that name a position
tag_sets_reported(rec) ==
    {tags_named(Slot(rec.rankings, NoRankingsRow).Position),
     tags_named(Slot(rec.ultimate, NoUltimateRow).Position),
     tags_named(Slot(rec.data, NoDataRow).Position)} \ {{}}

\* C25: position_conflict is 1 exactly when the rows of the rankings, the
\* ultimate sheet and the data that name a position name more than one set
\* of tags; the order of the tags in a cell does not count, and a row that
\* names no position is ignored.
C25_PositionConflict ==
    rows_built =>
        \A i \in 1..Len(records) :
            output_rows[i].position_conflict =
                IF Cardinality(tag_sets_reported(records[i])) > 1 THEN 1 ELSE 0

\* "FWD/MID" in the rankings, "MID/FWD" in the ultimate sheet and a cell
\* without a position in the data: no conflict
C25_Witness ==
    /\ rows_built
    /\ \E i \in 1..Len(records) :
          /\ records[i].rankings # None /\ Val(records[i].rankings).Position = FwdMid
          /\ records[i].ultimate # None /\ Val(records[i].ultimate).Position = MidFwd
          /\ records[i].data # None /\ Val(records[i].data).Position = <<"U","T","I","L">>
          /\ output_rows[i].position_conflict = 0

\* "MID" against "MID/FWD": a conflict
C25_Conflict ==
    /\ rows_built
    /\ \E i \in 1..Len(records) :
          /\ records[i].rankings # None /\ Val(records[i].rankings).Position = TMID
          /\ records[i].data # None /\ Val(records[i].data).Position = MidFwd
          /\ output_rows[i].position_conflict = 1

---------------------------------------------------------------------------
(* C26: the projection conflict flag.                                      *)

\* projections of one player: 100.0, 99.5 and 8.95 in the rankings, 100.0,
\* 96.0 and 92.1 in the ultimate sheet, 92.04, 92.05, 92.06, 92.0, 91.55
\* and 1.0 in the data
SPREAD_RANKINGS == {Some(1000), Some(995), Fine(895)}

SPREAD_ULTIMATE == {Some(1000), Some(960), Some(921)}

SPREAD_DATA == {Fine(9204), Fine(9205), Fine(9206), Some(920), Fine(9155), Some(10)}

InitSpread ==
    \E u \in AtMostOneRow({UltimateRow(MaxHall, GWS, TMID, v) : v \in SPREAD_ULTIMATE}),
       r \in AtMostOneRow({RankingsRow(MaxHall, GWS, TMID, v) : v \in SPREAD_RANKINGS}),
       d \in AtMostOneRow({DataRow(MaxHall, GWS, TMID, v) : v \in SPREAD_DATA}),
       e \in AtMostOneRow({ExpertRow(MaxHall, TMID, "A1", 1)}) :
          Start(u, r, d, e, SHEET_SIZES, << >>, CODE_ORDER)

SpecSpread == InitSpread /\ [][Next]_vars

\* the candidate projected scores of a record, in hundredths
candidate_scores(rec) ==
    {Val(c) : c \in {hundredths(Slot(rec.rankings, NoRankingsRow).Projected),
                     hundredths(Slot(rec.ultimate, NoUltimateRow).AVG),
                     hundredths(Slot(rec.data, NoDataRow).Projected)} \ {None}}

\* the number of candidates (two sources may give the same score)
candidate_count(rec) ==
    Cardinality({s \in {"rankings", "ultimate", "data"} :
                    (CASE s = "rankings" -> Slot(rec.rankings, NoRankingsRow).Projected
                       [] s = "ultimate" -> Slot(rec.ultimate, NoUltimateRow).AVG
                       [] s = "data" -> Slot(rec.data, NoDataRow).Projected) # None})

\* the largest candidate less the smallest, in hundredths
exact_spread(rec) == SetMax(candidate_scores(rec)) - SetMin(candidate_scores(rec))

\* C26 as stated: projection_conflict is 1 if and only if there are two
\* candidates or more and the largest less the smallest is at least 8.0.
C26_AsStated ==
    rows_built =>
        \A i \in 1..Len(records) :
            output_rows[i].projection_conflict =
                IF candidate_count(records[i]) >= 2 /\ exact_spread(records[i]) >= 800
                THEN 1 ELSE 0

\* 100.0 in the rankings and 92.04 in the data, 7.96 apart: the flag is up
C26_Witness ==
    /\ rows_built
    /\ \E i \in 1..Len(records) :
          /\ candidate_scores(records[i]) = {10000, 9204}
          /\ output_rows[i].projection_spread = 80
          /\ output_rows[i].projection_conflict = 1

\* The flag is that of the spread rounded to one decimal: up from 7.95 on.
\* At 7.95 the rounding of the doubles decides: 100.0 less 92.05 is rounded
\* to 8.0 and 8.95 less 1.0 to 7.9.
C26_RoundedSpread ==
    rows_built =>
        \A i \in 1..Len(records) :
            /\ output_rows[i].projection_conflict =
                  IF output_rows[i].projection_spread >= 80 THEN 1 ELSE 0
            /\ candidate_count(records[i]) < 2 => output_rows[i].projection_conflict = 0
            /\ (candidate_count(records[i]) >= 2 /\ exact_spread(records[i]) > 795)
                  => output_rows[i].projection_conflict = 1
            /\ (candidate_count(records[i]) >= 2 /\ exact_spread(records[i]) < 795)
                  => output_rows[i].projection_conflict = 0
            /\ candidate_scores(records[i]) = {10000, 9205}
                  => output_rows[i].projection_conflict = 1
            /\ candidate_scores(records[i]) = {895, 100}
                  => output_rows[i].projection_conflict = 0


---------------------------------------------------------------------------
(* The note extractor: one player, known to every source, and the         *)
(* documents that may mention him.                                         *)

\* A document holds at most MaxPages pages.
MaxPages == 3

PAGE_ROLE == <<"M","a","x"," ","H","a","l","l"," ","h","a","s"," ","a"," ","n","e","w"," ","r","o","l","e",".">>

PAGE_ROLE_AGAIN == <<"M","A","X"," ","H","A","L","L"," ","h","a","s"," ","a"," ","n","e","w"," ","r","o","l","e","!">>

PAGE_WING == <<"M","a","x"," ","H","a","l","l"," ","m","o","v","e","s"," ","t","o"," ","a"," ","w","i","n","g"," ","r","o","l","e"," ","t","h","i","s"," ","y","e","a","r","."," ","B","y","e",".">>

PAGE_SEASON == <<"M","a","x"," ","H","a","l","l"," ","i","s"," ","o","u","t"," ","f","o","r"," ","s","e","a","s","o","n",".">>

PAGE_GOALS == <<"M","a","x"," ","H","a","l","l"," ","k","i","c","k","e","d"," ","3"," ","g","o","a","l","s",".">>

PAGE_OTHER == <<"S","a","m"," ","D","a","y"," ","p","l","a","y","s"," ","o","n"," ","a"," ","w","i","n","g",".">>

PAGE_HALF_BACK == <<"M","a","x"," ","H","a","l","l"," ","p","l","a","y","s"," ","a"," ","h","a","l","f"," ","b","a","c","k"," ","r","o","l","e",".">>

\* a page whose midfield term lies more than WINDOW_BEFORE characters before
\* the name
PAGE_LONG ==
    <<"c","b","a"," ">> \o [i \in 1..WINDOW_BEFORE |-> "x"]
        \o <<" ">> \o MaxHall \o <<" ","o","n"," ","a"," ","w","i","n","g",".">>

PAGES == {PAGE_ROLE, PAGE_HALF_BACK, PAGE_SEASON, PAGE_GOALS, PAGE_OTHER, PAGE_LONG}

OFFICIAL == <<"o","f","f">>

\* the second document, if there is one
SECOND_DOCUMENTS ==
    {<< >>} \cup {<<<<OFFICIAL, <<page>>>>>> : page \in {PAGE_WING, PAGE_ROLE_AGAIN}}

InitPdf ==
    \E n \in 0..MaxPages :
      \E pages \in Tuples(PAGES, n), second \in SECOND_DOCUMENTS :
        Start(<<UltimateRow(MaxHall, GWS, TMID, Some(900))>>,
              <<RankingsRow(MaxHall, GwsRaw, TMID, Some(900))>>,
              <<DataRow(MaxHall, GWS, TMID, Some(900))>>,
              <<ExpertRow(MaxHall, TMID, "A1", 1)>>,
              SHEET_SIZES, <<<<DOCTORS, pages>>>> \o second, CODE_ORDER)

SpecPdf == InitPdf /\ [][Next]_vars

\* the page p of the document d mentions the player
mentions(name, d, p) ==
    pattern_search(Lower(name), Lower(pdf_sources[d][2][p])) # 0

\* the pages of the documents that mention the player
mentioning(name) ==
    UNION {{<<d, p>> : p \in {p \in 1..Len(pdf_sources[d][2]) : mentions(name, d, p)}} :
              d \in 1..Len(pdf_sources)}

\* the mentions of the player in the document d before its page p
mentions_before(name, d, p) ==
    Cardinality({e \in mentioning(name) : e[1] = d /\ e[2] < p})

\* the snippet around the first mention of the player on a page
snippet_at(name, e) ==
    snippet_of(pdf_sources[e[1]][2][e[2]],
               pattern_search(Lower(name), Lower(pdf_sources[e[1]][2][e[2]])),
               Len(name))

sentence_at(name, e) == best_pdf_sentence(snippet_at(name, e), name)

\* what a note says of the page e
cited(name, e) ==
    pdf_sources[e[1]][1] \o <<" ", "p">> \o str_of(e[2]) \o <<":", " ">>
        \o sentence_at(name, e)

\* the pages a note is made of: none, one, or two joined with " || "
pages_cited(name, note, from) ==
    {c \in {<< >>} \cup {<<e>> : e \in from} \cup (from \X from) :
        note = IF Len(c) = 0 THEN << >>
               ELSE IF Len(c) = 1 THEN cited(name, c[1])
               ELSE cited(name, c[1]) \o <<" ", "|", "|", " ">> \o cited(name, c[2])}

\* the mentions within the first two of their document whose snippet
\* scores at least 2
relevant(name) ==
    {e \in mentioning(name) :
        /\ mentions_before(name, e[1], e[2]) < 2
        /\ snippet_score(snippet_at(name, e)) >= 2}

distinct_keys(name, c) ==
    Len(c) = 2 => /\ c[1] # c[2]
                  /\ nkey(sentence_at(name, c[1])) # nkey(sentence_at(name, c[2]))

\* the season_out flag comes from a page that was scanned
season_out_scanned(name) ==
    \E e \in mentioning(name) :
        /\ mentions_before(name, e[1], e[2]) < 2
        /\ any_term(Lower(snippet_at(name, e)), PDF_SEASON_OUT_TERMS)

\* C27: the note of a row is made of at most two sentences joined with
\* " || "; each is the sentence of a page that is among the first two pages
\* of its document that mention the player (no page after them is scanned,
\* for the note or for the season_out flag) and whose snippet scores at
\* least 2; two sentences of one note have different normalized keys.
C27_NoteBounds ==
    rows_built =>
        \A i \in 1..Len(output_rows) :
            /\ \E c \in pages_cited(output_rows[i].name, output_rows[i].pdf_notes,
                                    relevant(output_rows[i].name)) :
                  distinct_keys(output_rows[i].name, c)
            /\ output_rows[i].pdf_season_out = 1
                  => season_out_scanned(output_rows[i].name)

\* three pages of a document mention the player: the third, the only one
\* that tells of a season out, is not scanned; the second scores 0; the
\* page of the other document says what the first says and adds nothing
C27_Witness ==
    /\ rows_built
    /\ pdf_sources = <<<<DOCTORS, <<PAGE_ROLE, PAGE_GOALS, PAGE_SEASON>>>>,
                       <<OFFICIAL, <<PAGE_ROLE_AGAIN>>>>>>
    /\ output_rows[1].pdf_notes = DOCTORS \o <<" ","p","1",":"," ">> \o PAGE_ROLE
    /\ output_rows[1].pdf_season_out = 0

\* two sentences in one note
C27_TwoSentences ==
    /\ rows_built
    /\ pdf_sources = <<<<DOCTORS, <<PAGE_SEASON, PAGE_ROLE>>>>>>
    /\ output_rows[1].pdf_notes =
          DOCTORS \o <<" ","p","1",":"," ">> \o PAGE_SEASON \o <<" ","|","|"," ">>
              \o DOCTORS \o <<" ","p","2",":"," ">> \o PAGE_ROLE

---------------------------------------------------------------------------
(* The order in which the snippets of a player are considered.            *)

\* the scanned pages whose sentence may enter a note
keepable(name) ==
    {e \in relevant(name) :
        /\ worth_keeping(Lower(sentence_at(name, e)), sentence_at(name, e))
        /\ nkey(sentence_at(name, e)) # << >>}

\* e1 is scanned before e2
scanned_before(e1, e2) == e1[1] < e2[1] \/ (e1[1] = e2[1] /\ e1[2] < e2[2])

\* e1 is considered before e2: the higher score first; of equal scores the
\* shorter snippet (by = 1) or the longer one (by = -1) first; of equal
\* scores and lengths the one scanned first
ahead(s1, s2, e1, e2, by) ==
    \/ snippet_score(s1) > snippet_score(s2)
    \/ /\ snippet_score(s1) = snippet_score(s2)
       /\ \/ by * Len(s1) < by * Len(s2)
          \/ Len(s1) = Len(s2) /\ scanned_before(e1, e2)

considered_before(name, e1, e2, by) ==
    ahead(snippet_at(name, e1), snippet_at(name, e2), e1, e2, by)

\* the pages c of a note are the first, in the order by, whose sentences
\* can be kept
first_chosen(name, c, by) ==
    /\ Len(c) = 2 => considered_before(name, c[1], c[2], by)
    /\ \A e \in keepable(name) \ Range(c) :
          \/ Len(c) = 2 /\ considered_before(name, c[2], e, by)
          \/ \E k \in 1..Len(c) :
                /\ nkey(sentence_at(name, c[k])) = nkey(sentence_at(name, e))
                /\ considered_before(name, c[k], e, by)

chosen_in_order(by) ==
    rows_built =>
        \A i \in 1..Len(output_rows) :
            \A c \in pages_cited(output_rows[i].name, output_rows[i].pdf_notes,
                                 relevant(output_rows[i].name)) :
                first_chosen(output_rows[i].name, c, by)

\* C28 as stated: the snippets are considered in descending order of
\* (score, snippet length), the longer of two snippets of equal score
\* first.
C28_AsStated == chosen_in_order(-1)

\* C28: the snippets are considered in descending order of score and, among
\* snippets of equal score, in ascending order of snippet length: the
\* shorter of two snippets of equal score is considered before the longer
\* one when the at most 2 sentences of the note are chosen.
C28_ShorterFirst == chosen_in_order(1)

\* three snippets of score 2, of 32, 24 and 45 characters: the note is made
\* of the two shortest, the shortest first
C28_Witness ==
    /\ rows_built
    /\ pdf_sources = <<<<DOCTORS, <<PAGE_HALF_BACK, PAGE_ROLE>>>>,
                       <<OFFICIAL, <<PAGE_WING>>>>>>
    /\ output_rows[1].pdf_notes =
          DOCTORS \o <<" ","p","2",":"," ">> \o PAGE_ROLE \o <<" ","|","|"," ">>
              \o DOCTORS \o <<" ","p","1",":"," ">> \o PAGE_HALF_BACK

---------------------------------------------------------------------------
(* C29: the rows of a source and the slots of the records.                 *)

\* the row has a name, so that the fold does not skip it
named_row(name) == Strip(name) # << >>

\* some record holds the row in the slot of its source
in_a_slot(source, row) ==
    \E i \in 1..Len(records) : records[i][source] = Some(row)

\* C29 as stated: no source row is lost; when the output rows are built,
\* every row of the ultimate sheet, the rankings and the data that has a
\* name is in the slot of its source in a record.
C29_AsStated ==
    rows_built =>
        /\ \A j \in 1..Len(ultimate_rows) :
              named_row(ultimate_rows[j].Player) => in_a_slot("ultimate", ultimate_rows[j])
        /\ \A j \in 1..Len(rankings_rows) :
              named_row(rankings_rows[j].Name) => in_a_slot("rankings", rankings_rows[j])
        /\ \A j \in 1..Len(data_rows) :
              named_row(data_rows[j].Player) => in_a_slot("data", data_rows[j])

\* the rankings row of "Max Hal", fuzzy-matched to the record of "Max Hall",
\* is overwritten by the rankings row of "Max Hall": its projection of 90.0
\* is in no record
C29_Witness ==
    /\ rows_built
    /\ ultimate_rows = <<UltimateRow(MaxHall, << >>, TFWD, None)>>
    /\ rankings_rows = <<RankingsRow(MaxHal, GwsRaw, FwdMid, Some(900)),
                         RankingsRow(MaxHall, GEEL, << >>, None)>>
    /\ Len(records) = 1
    /\ records[1].rankings = Some(RankingsRow(MaxHall, GEEL, << >>, None))
    /\ output_rows[1].proj_score = None

\* what holds: a row is lost only to a later row of its source that
\* resolves to the same record; a slot, once filled, stays filled, and the
\* row in it is the last row of the source folded into the record
C29_LastRowKept ==
    [][(\A i \in 1..Len(records) :
           \A source \in {"ultimate", "rankings", "data"} :
               (records'[i][source] # records[i][source]) =>
                   (fold_step /\ incoming_source = source
                       /\ records[i].key = incoming_key))
       /\ ((fold_step /\ incoming_source # "experts") =>
              (record_of(records', incoming_key)[incoming_source] = Some(incoming_row)))]_vars

---------------------------------------------------------------------------
(* C30: the records a name resolves to in the course of a run.             *)

\* the name of a row of the rankings or the data
row_name(source, row) == Strip(IF source = "rankings" THEN row.Name ELSE row.Player)

\* the record i holds a row of this name that was fuzzy-matched to it: its
\* key is not the key of the name
fuzzy_matched_to(i, name) ==
    /\ records[i].key # canonical_key(name)
    /\ \E source \in {"rankings", "data"} :
          /\ records[i][source] # None
          /\ row_name(source, Val(records[i][source])) = name

\* C30 as stated: a name that was fuzzy-matched to a record resolves to that
\* record whenever it is folded again.
C30_AsStated ==
    fold_step =>
        \A i \in 1..Len(records) :
            fuzzy_matched_to(i, incoming_name) => incoming_key = records[i].key

\* "Max Hal" of the rankings, at GWS, was fuzzy-matched to the record of
\* "Max Hall"; "Max Hal" of the data, at GEEL, made a record of its own
C30_Witness ==
    /\ Len(records) = 2
    /\ records[1].name = MaxHall /\ records[1].key # canonical_key(MaxHal)
    /\ records[1].rankings = Some(RankingsRow(MaxHal, GwsRaw, FwdMid, Some(900)))
    /\ records[2].key = canonical_key(MaxHal)
    /\ records[2].data = Some(DataRow(MaxHal, GEEL, TDEF, Some(900)))

====
